---- MODULE Spec2Model ----
(***************************************************************************)
(* A model of the Neo4j EHR MCP server (mcp_server_neo4j_ehr).             *)
(*                                                                         *)
(* The server binds eight tools to one connection wrapper and an optional  *)
(* LLM key.  Each tool invocation is one action: it runs the component     *)
(* function of the tool to completion, against the outcomes the database   *)
(* and the LLM client produce for the calls the component makes.  The      *)
(* state records the last invocation: the tool, its arguments, the calls   *)
(* it issued to its collaborators, and what it returned or raised.         *)
(***************************************************************************)
EXTENDS Integers, Sequences, FiniteSets, TLC

VARIABLES
    openai_api_key,   \* the key create_mcp_server closed over (None when absent)
    tool,             \* name of the tool last invoked ("none" before the first call)
    args,             \* arguments of that invocation
    env,              \* what the collaborators answered during that invocation
    calls,            \* the calls the invocation issued, in order
    result,           \* what the invocation returned or raised
    servers,          \* the server instances create_mcp_server has returned, in order
    created,          \* the arguments of each call of create_mcp_server, in order
    instance,         \* the server whose tool was last invoked (0: the only one there is)
    cli,              \* the command line and the environment the process was started with
    pc,               \* where the process stands between the CLI and its exit
    connection,       \* the connection wrapper of the process
    driver_calls,     \* the calls that reached the driver of the wrapper, in order
    history,          \* the calls made before the last one and what each returned
    validator,        \* the demo validator: the asset it reads, its results, its exit
    client,           \* the standard input/output client: its request id, what it sent
    loop              \* the event loop of the server: its tasks and the open sessions

serverVars == <<servers, created, instance>>
processVars == <<cli, pc, connection, driver_calls, history>>
otherVars == <<validator, client, loop>>

vars == <<openai_api_key, tool, args, env, calls, result, serverVars, processVars, otherVars>>

----------------------------------------------------------------------------
(* Bounds of the model *)

NItems == 2      \* items of each clinical category in the database
MaxRows == 2     \* longest row list a scripted read returns
MaxServers == 2  \* server instances created in one process
MaxCalls == 3    \* calls of the connection wrapper's methods by one client
MaxMissing == 2   \* markers missing from index.html at most
MaxTasks == 2     \* invocations pending on one server at a time

----------------------------------------------------------------------------
(* constants.py *)

DEFAULT_LIMIT == 20
DEFAULT_NOTE_SEARCH_LIMIT == 5
DEFAULT_NATURAL_QUERY_LIMIT == 10

OUTPUT_FORMAT_JSON == "json"
OUTPUT_FORMAT_TABLE == "table"
OUTPUT_FORMAT_TEXT == "text"
OUTPUT_FORMAT_MARKDOWN == "markdown"

NOTE_TYPE_DISCHARGE == "discharge"
NOTE_TYPE_RADIOLOGY == "radiology"
NOTE_TYPE_ALL == "all"

NOTE_EMBEDDINGS_INDEX == "note_embeddings"

(* data_types.py *)
OutputFormat == {OUTPUT_FORMAT_JSON, OUTPUT_FORMAT_TABLE, OUTPUT_FORMAT_TEXT, OUTPUT_FORMAT_MARKDOWN}
NoteType == {NOTE_TYPE_DISCHARGE, NOTE_TYPE_RADIOLOGY, NOTE_TYPE_ALL}

----------------------------------------------------------------------------
(* Python values *)

None == "<None>"

\* Python truthiness of an Optional[str]: None and the empty string are falsy.
Truthy(v) == v # None /\ v # ""

\* Python truthiness of a list: the empty list is falsy.
NonEmpty(rows) == Len(rows) > 0

----------------------------------------------------------------------------
(* The inputs the model draws from *)

Patients == {"p1", "p2"}                 \* subject ids present in the database
Admissions == {"a1", "a2"}               \* admission ids present in the database
SubjectIds == {"p1", "p9"}               \* "p9" is not in the database
OptPatientIds == {None, "", "p1"}
OptAdmissionIds == {None, "", "a1"}
OptFilters == {None, "x"}
Limits == {1, DEFAULT_LIMIT}
Keys == {None, "", "sk-test"}
Items == 1..NItems

\* All sequences over S of length at most n.
RECURSIVE SeqsUpTo(_, _)
SeqsUpTo(S, n) ==
    IF n = 0 THEN {<<>>}
    ELSE LET shorter == SeqsUpTo(S, n - 1)
         IN shorter \cup {Append(s, x) : s \in {t \in shorter : Len(t) = n - 1}, x \in S}

\* What a read answers when the database is scripted: it raises the
\* database's error, or it returns a list of rows.
DbOutcomes ==
    {[message |-> "Neo4jError", raise |-> TRUE, rows |-> <<>>]}
    \cup {[message |-> "", raise |-> FALSE, rows |-> r] : r \in SeqsUpTo(Items, MaxRows)}

----------------------------------------------------------------------------
(* What a component hands back to the tool that called it *)

Returned(format, body) == [body |-> body, format |-> format, type |-> "return"]
Raised(message) == [body |-> [exception |-> message], format |-> "none", type |-> "raise"]

\* A mutation of ReadCall: the component hands its query to execute_write.
ReadCall_through_write(query, params) ==
    [fn |-> "execute_write", params |-> params, query |-> query]

\* db.execute_read(query, params), as the components call it.
ReadCall(query, params) == [fn |-> "execute_read", params |-> params, query |-> query]

Outcome(issued, res) == [calls |-> issued, result |-> res]

----------------------------------------------------------------------------
(* db_connection.py *)

\* Neo4jConnection.execute_read: the rows of the session's read transaction,
\* or the database error, re-raised after it is logged.
execute_read(db) == IF db.raise THEN [message |-> db.message, ok |-> FALSE, rows |-> <<>>]
                    ELSE [message |-> "", ok |-> TRUE, rows |-> db.rows]

----------------------------------------------------------------------------
(* functionality/list_diagnoses.py *)

DIAGNOSES_BY_ADMISSION ==
    <<"MATCH (a:Admission {hadm_id: $admission_id})-[:HAS_DIAGNOSIS]->(d:Diagnosis)",
      "RETURN d", "ORDER BY d.seq_num", "LIMIT $limit">>
DIAGNOSES_BY_PATIENT ==
    <<"MATCH (p:Patient {subject_id: $patient_id})-[:HAS_ADMISSION]->(a:Admission)-[:HAS_DIAGNOSIS]->(d:Diagnosis)",
      "RETURN d, a.hadm_id as hadm_id", "ORDER BY a.admittime DESC, d.seq_num", "LIMIT $limit">>

MISSING_ID_ERROR == "Either patient_id or admission_id must be provided"

\* A mutation of diagnoses_query: the missing-identifier branch falls through
\* to the patient-scoped query.
diagnoses_query_fallthrough(patient_id, admission_id, limit) ==
    IF Truthy(admission_id)
    THEN [ok |-> TRUE, params |-> [admission_id |-> admission_id, limit |-> limit],
          query |-> DIAGNOSES_BY_ADMISSION]
    ELSE [ok |-> TRUE, params |-> [limit |-> limit, patient_id |-> patient_id],
          query |-> DIAGNOSES_BY_PATIENT]

\* The if/elif/else that picks the query and its parameters.
diagnoses_query(patient_id, admission_id, limit) ==
    IF Truthy(admission_id)
    THEN [ok |-> TRUE, params |-> [admission_id |-> admission_id, limit |-> limit],
          query |-> DIAGNOSES_BY_ADMISSION]
    ELSE IF Truthy(patient_id)
    THEN [ok |-> TRUE, params |-> [limit |-> limit, patient_id |-> patient_id],
          query |-> DIAGNOSES_BY_PATIENT]
    ELSE [ok |-> FALSE, params |-> [limit |-> limit], query |-> <<>>]

list_diagnoses(db, patient_id, admission_id, limit, format) ==
    LET q == diagnoses_query(patient_id, admission_id, limit)
        r == execute_read(db)
        issued == <<ReadCall(q.query, q.params)>>
    IN  IF ~q.ok THEN Outcome(<<>>, Returned("json", [error |-> MISSING_ID_ERROR]))
        ELSE IF ~r.ok THEN Outcome(issued, Raised(r.message))
        ELSE IF ~NonEmpty(r.rows)
        THEN Outcome(issued, Returned("json", [diagnoses |-> <<>>, message |-> "No diagnoses found"]))
        ELSE IF format = OUTPUT_FORMAT_TABLE
        THEN Outcome(issued, Returned("table", [table |-> r.rows]))
        ELSE Outcome(issued, Returned("json", [count |-> Len(r.rows), diagnoses |-> r.rows]))

----------------------------------------------------------------------------
(* functionality/list_procedures.py *)

PROCEDURES_BY_ADMISSION ==
    <<"MATCH (a:Admission {hadm_id: $admission_id})-[:HAS_PROCEDURE]->(p:Procedure)",
      "RETURN p", "ORDER BY p.seq_num", "LIMIT $limit">>
PROCEDURES_BY_PATIENT ==
    <<"MATCH (pat:Patient {subject_id: $patient_id})-[:HAS_ADMISSION]->(a:Admission)-[:HAS_PROCEDURE]->(p:Procedure)",
      "RETURN p, a.hadm_id as hadm_id", "ORDER BY p.chartdate DESC, p.seq_num", "LIMIT $limit">>

procedures_query(patient_id, admission_id, limit) ==
    IF Truthy(admission_id)
    THEN [ok |-> TRUE, params |-> [admission_id |-> admission_id, limit |-> limit],
          query |-> PROCEDURES_BY_ADMISSION]
    ELSE IF Truthy(patient_id)
    THEN [ok |-> TRUE, params |-> [limit |-> limit, patient_id |-> patient_id],
          query |-> PROCEDURES_BY_PATIENT]
    ELSE [ok |-> FALSE, params |-> [limit |-> limit], query |-> <<>>]

list_procedures(db, patient_id, admission_id, limit, format) ==
    LET q == procedures_query(patient_id, admission_id, limit)
        r == execute_read(db)
        issued == <<ReadCall(q.query, q.params)>>
    IN  IF ~q.ok THEN Outcome(<<>>, Returned("json", [error |-> MISSING_ID_ERROR]))
        ELSE IF ~r.ok THEN Outcome(issued, Raised(r.message))
        ELSE IF ~NonEmpty(r.rows)
        THEN Outcome(issued, Returned("json", [message |-> "No procedures found", procedures |-> <<>>]))
        ELSE IF format = OUTPUT_FORMAT_TABLE
        THEN Outcome(issued, Returned("table", [table |-> r.rows]))
        ELSE Outcome(issued, Returned("json", [count |-> Len(r.rows), procedures |-> r.rows]))

----------------------------------------------------------------------------
(* The f-string queries: ' AND '.join(where_conditions) between fixed lines *)

RECURSIVE JoinAnd(_)
JoinAnd(conds) ==
    IF Len(conds) = 0 THEN <<>>
    ELSE IF Len(conds) = 1 THEN conds
    ELSE <<Head(conds), "AND">> \o JoinAnd(Tail(conds))

----------------------------------------------------------------------------
(* functionality/list_medications.py *)

\* A mutation of medications_conditions: the two identifier tests are two
\* ifs, so a patient id given with an admission id narrows the filter too.
medications_conditions_both_filters(patient_id, admission_id, medication, route) ==
    (IF Truthy(admission_id) THEN <<"m.hadm_id = $admission_id">> ELSE <<>>)
    \o (IF Truthy(patient_id) THEN <<"m.subject_id = $patient_id">> ELSE <<>>)
    \o (IF Truthy(medication) THEN <<"toLower(m.medication) CONTAINS toLower($medication)">> ELSE <<>>)
    \o (IF Truthy(route) THEN <<"toLower(m.route) = toLower($route)">> ELSE <<>>)

medications_conditions(patient_id, admission_id, medication, route) ==
    (IF Truthy(admission_id) THEN <<"m.hadm_id = $admission_id">>
     ELSE <<"m.subject_id = $patient_id">>)
    \o (IF Truthy(medication) THEN <<"toLower(m.medication) CONTAINS toLower($medication)">> ELSE <<>>)
    \o (IF Truthy(route) THEN <<"toLower(m.route) = toLower($route)">> ELSE <<>>)

medications_query(patient_id, admission_id, medication, route, limit) ==
    IF ~Truthy(admission_id) /\ ~Truthy(patient_id)
    THEN [ok |-> FALSE, params |-> [limit |-> limit], query |-> <<>>]
    ELSE [ok |-> TRUE,
          params |-> [admission_id |-> admission_id, limit |-> limit,
                      medication |-> medication, patient_id |-> patient_id, route |-> route],
          query |-> <<"MATCH (m:Medication)", "WHERE">>
                    \o JoinAnd(medications_conditions(patient_id, admission_id, medication, route))
                    \o <<"RETURN m", "ORDER BY m.verifiedtime DESC", "LIMIT $limit">>]

\* A mutation of list_medications: the output format is tested before the
\* empty result, so an empty table is rendered for the table format.
list_medications_format_first(db, patient_id, admission_id, medication, route, limit, format) ==
    LET q == medications_query(patient_id, admission_id, medication, route, limit)
        r == execute_read(db)
        issued == <<ReadCall(q.query, q.params)>>
    IN  IF ~q.ok THEN Outcome(<<>>, Returned("json", [error |-> MISSING_ID_ERROR]))
        ELSE IF ~r.ok THEN Outcome(issued, Raised(r.message))
        ELSE IF format = OUTPUT_FORMAT_TABLE
        THEN Outcome(issued, Returned("table", [table |-> r.rows]))
        ELSE IF ~NonEmpty(r.rows)
        THEN Outcome(issued, Returned("json", [medications |-> <<>>, message |-> "No medications found"]))
        ELSE Outcome(issued, Returned("json", [count |-> Len(r.rows), medications |-> r.rows]))

list_medications(db, patient_id, admission_id, medication, route, limit, format) ==
    LET q == medications_query(patient_id, admission_id, medication, route, limit)
        r == execute_read(db)
        issued == <<ReadCall(q.query, q.params)>>
    IN  IF ~q.ok THEN Outcome(<<>>, Returned("json", [error |-> MISSING_ID_ERROR]))
        ELSE IF ~r.ok THEN Outcome(issued, Raised(r.message))
        ELSE IF ~NonEmpty(r.rows)
        THEN Outcome(issued, Returned("json", [medications |-> <<>>, message |-> "No medications found"]))
        ELSE IF format = OUTPUT_FORMAT_TABLE
        THEN Outcome(issued, Returned("table", [table |-> r.rows]))
        ELSE Outcome(issued, Returned("json", [count |-> Len(r.rows), medications |-> r.rows]))

----------------------------------------------------------------------------
(* functionality/list_lab_events.py *)

lab_events_conditions(admission_id, abnormal_only, category) ==
    <<"l.subject_id = $patient_id">>
    \o (IF Truthy(admission_id) THEN <<"l.hadm_id = $admission_id">> ELSE <<>>)
    \o (IF abnormal_only THEN <<"l.flag IS NOT NULL AND l.flag <> 'normal'">> ELSE <<>>)
    \o (IF Truthy(category) THEN <<"toLower(l.category) = toLower($category)">> ELSE <<>>)

\* A mutation of lab_events_query: the query has no ORDER BY clause.
lab_events_query_unordered(patient_id, admission_id, abnormal_only, category, limit) ==
    [ok |-> TRUE,
     params |-> [admission_id |-> admission_id, category |-> category,
                 limit |-> limit, patient_id |-> patient_id],
     query |-> <<"MATCH (l:LabEvent)", "WHERE">>
               \o JoinAnd(lab_events_conditions(admission_id, abnormal_only, category))
               \o <<"RETURN l", "LIMIT $limit">>]

lab_events_query(patient_id, admission_id, abnormal_only, category, limit) ==
    [ok |-> TRUE,
     params |-> [admission_id |-> admission_id, category |-> category,
                 limit |-> limit, patient_id |-> patient_id],
     query |-> <<"MATCH (l:LabEvent)", "WHERE">>
               \o JoinAnd(lab_events_conditions(admission_id, abnormal_only, category))
               \o <<"RETURN l", "ORDER BY l.charttime DESC", "LIMIT $limit">>]

list_lab_events(db, patient_id, admission_id, abnormal_only, category, limit, format) ==
    LET q == lab_events_query(patient_id, admission_id, abnormal_only, category, limit)
        r == execute_read(db)
        issued == <<ReadCall(q.query, q.params)>>
    IN  IF ~r.ok THEN Outcome(issued, Raised(r.message))
        ELSE IF ~NonEmpty(r.rows)
        THEN Outcome(issued, Returned("json", [lab_events |-> <<>>, message |-> "No lab events found"]))
        ELSE IF format = OUTPUT_FORMAT_TABLE
        THEN Outcome(issued, Returned("table", [table |-> r.rows]))
        ELSE Outcome(issued, Returned("json", [count |-> Len(r.rows), lab_events |-> r.rows]))

----------------------------------------------------------------------------
(* The LLM client and the schema read, as the components see them *)

EMBEDDING_MODEL == "text-embedding-3-small"
CHAT_MODEL == "gpt-4.1-nano"

EmbeddingCall(text) == [fn |-> "embeddings.create", input |-> text, model |-> EMBEDDING_MODEL]
ChatCall(question, limit) == [fn |-> "chat.completions.create", limit |-> limit,
                              model |-> CHAT_MODEL, question |-> question]
SchemaCall == [fn |-> "get_schema"]

\* client.embeddings.create answers with a vector or raises.
EmbeddingOutcomes == {[message |-> "API Error", raise |-> TRUE], [message |-> "", raise |-> FALSE]}

\* db.get_schema answers with the schema mapping or raises.
SchemaOutcomes == {[message |-> "Schema Error", raise |-> TRUE], [message |-> "", raise |-> FALSE]}

Min(a, b) == IF a < b THEN a ELSE b

----------------------------------------------------------------------------
(* functionality/search_notes.py *)

SEMANTIC_KEY_ERROR == "OpenAI API key is required for semantic search"

\* A mutation of search_notes_key_missing: only an absent key is refused, an
\* empty one is taken for a key.
search_notes_key_missing_none_only(semantic, key) == semantic /\ key = None

\* The guard at the top of search_notes: semantic and not openai_api_key.
search_notes_key_missing(semantic, key) == semantic /\ ~Truthy(key)

\* Row i of the answer to a note query: the columns of the RETURN clause.
\* The vector query also returns the score the index yields with the node
\* (written as a decimal); the text query has no such column.
note_row(i, semantic) ==
    [note_id |-> i, score |-> IF semantic THEN "0." \o ToString(100 - i) ELSE None]

\* NoteSearchResult(**r): the fields of the row, score included.
NoteSearchResult(r) == [note_id |-> r.note_id, score |-> r.score]

\* A mutation of text_search_conditions: the search text is written into the
\* clause instead of being left to the $query parameter.
text_search_conditions_interpolated(query, note_type, patient_id, admission_id) ==
    (IF note_type = NOTE_TYPE_DISCHARGE THEN <<"note:DischargeNote">>
     ELSE IF note_type = NOTE_TYPE_RADIOLOGY THEN <<"note:RadiologyReport">>
     ELSE <<"(note:DischargeNote OR note:RadiologyReport)">>)
    \o (IF Truthy(query) THEN <<"toLower(note.text) CONTAINS toLower('" \o query \o "')">> ELSE <<>>)
    \o (IF Truthy(patient_id) THEN <<"note.subject_id = $patient_id">> ELSE <<>>)
    \o (IF Truthy(admission_id) THEN <<"note.hadm_id = $admission_id">> ELSE <<>>)

text_search_conditions(query, note_type, patient_id, admission_id) ==
    (IF note_type = NOTE_TYPE_DISCHARGE THEN <<"note:DischargeNote">>
     ELSE IF note_type = NOTE_TYPE_RADIOLOGY THEN <<"note:RadiologyReport">>
     ELSE <<"(note:DischargeNote OR note:RadiologyReport)">>)
    \o (IF Truthy(query) THEN <<"toLower(note.text) CONTAINS toLower($query)">> ELSE <<>>)
    \o (IF Truthy(patient_id) THEN <<"note.subject_id = $patient_id">> ELSE <<>>)
    \o (IF Truthy(admission_id) THEN <<"note.hadm_id = $admission_id">> ELSE <<>>)

\* A mutation of text_search: the query text is embedded before the read.
text_search_embeds_query(db, query, note_type, limit, patient_id, admission_id) ==
    LET cypher_query == <<"MATCH (note)", "WHERE">>
                        \o JoinAnd(text_search_conditions(query, note_type, patient_id, admission_id))
                        \o <<"RETURN note.note_id as note_id, note.note_type as note_type, note.subject_id as subject_id, note.hadm_id as hadm_id, note.charttime as charttime, note.text as text",
                             "ORDER BY note.charttime DESC", "LIMIT $limit">>
        params == [admission_id |-> admission_id, limit |-> limit,
                   patient_id |-> patient_id, query |-> query]
        r == execute_read(db)
    IN  [calls |-> <<EmbeddingCall(query), ReadCall(cypher_query, params)>>, message |-> r.message, ok |-> r.ok,
         results |-> [k \in 1..Len(r.rows) |-> NoteSearchResult(note_row(r.rows[k], FALSE))]]

text_search(db, query, note_type, limit, patient_id, admission_id) ==
    LET cypher_query == <<"MATCH (note)", "WHERE">>
                        \o JoinAnd(text_search_conditions(query, note_type, patient_id, admission_id))
                        \o <<"RETURN note.note_id as note_id, note.note_type as note_type, note.subject_id as subject_id, note.hadm_id as hadm_id, note.charttime as charttime, note.text as text",
                             "ORDER BY note.charttime DESC", "LIMIT $limit">>
        params == [admission_id |-> admission_id, limit |-> limit,
                   patient_id |-> patient_id, query |-> query]
        r == execute_read(db)
    IN  [calls |-> <<ReadCall(cypher_query, params)>>, message |-> r.message, ok |-> r.ok,
         results |-> [k \in 1..Len(r.rows) |-> NoteSearchResult(note_row(r.rows[k], FALSE))]]

semantic_search_conditions(note_type, patient_id, admission_id) ==
    (IF note_type = NOTE_TYPE_DISCHARGE THEN <<"node:DischargeNote">>
     ELSE IF note_type = NOTE_TYPE_RADIOLOGY THEN <<"node:RadiologyReport">>
     ELSE <<"(node:DischargeNote OR node:RadiologyReport)">>)
    \o (IF Truthy(patient_id) THEN <<"node.subject_id = $patient_id">> ELSE <<>>)
    \o (IF Truthy(admission_id) THEN <<"node.hadm_id = $admission_id">> ELSE <<>>)

\* A mutation of semantic_search: the rows are cut at the number of candidates
\* asked for, not at the limit.
semantic_search_keeps_candidates(embedding, db, query, note_type, limit, patient_id, admission_id) ==
    LET cypher_query == <<"CALL db.index.vector.queryNodes($index_name, $limit, $query_embedding)",
                          "YIELD node, score", "WHERE">>
                        \o JoinAnd(semantic_search_conditions(note_type, patient_id, admission_id))
                        \o <<"RETURN node.note_id as note_id, node.note_type as note_type, node.subject_id as subject_id, node.hadm_id as hadm_id, node.charttime as charttime, node.text as text, score">>
        params == [admission_id |-> admission_id, index_name |-> NOTE_EMBEDDINGS_INDEX,
                   limit |-> limit * 2, patient_id |-> patient_id,
                   query_embedding |-> "embedding"]
        r == execute_read(db)
        kept == SubSeq(r.rows, 1, Min(limit * 2, Len(r.rows)))
    IN  IF embedding.raise
        THEN [calls |-> <<EmbeddingCall(query)>>, message |-> "", ok |-> TRUE, results |-> <<>>]
        ELSE [calls |-> <<EmbeddingCall(query), ReadCall(cypher_query, params)>>,
              message |-> r.message, ok |-> r.ok,
              results |-> [k \in 1..Len(kept) |-> NoteSearchResult(note_row(kept[k], TRUE))]]

\* A mutation of semantic_search: a failure of the embedding call is raised to
\* the caller, not answered with an empty list.
semantic_search_embedding_error_raised(embedding, db, query, note_type, limit, patient_id, admission_id) ==
    LET cypher_query == <<"CALL db.index.vector.queryNodes($index_name, $limit, $query_embedding)",
                          "YIELD node, score", "WHERE">>
                        \o JoinAnd(semantic_search_conditions(note_type, patient_id, admission_id))
                        \o <<"RETURN node.note_id as note_id, node.note_type as note_type, node.subject_id as subject_id, node.hadm_id as hadm_id, node.charttime as charttime, node.text as text, score">>
        params == [admission_id |-> admission_id, index_name |-> NOTE_EMBEDDINGS_INDEX,
                   limit |-> limit * 2, patient_id |-> patient_id,
                   query_embedding |-> "embedding"]
        r == execute_read(db)
        kept == SubSeq(r.rows, 1, Min(limit, Len(r.rows)))
    IN  IF embedding.raise
        THEN [calls |-> <<EmbeddingCall(query)>>, message |-> embedding.message, ok |-> FALSE,
              results |-> <<>>]
        ELSE [calls |-> <<EmbeddingCall(query), ReadCall(cypher_query, params)>>,
              message |-> r.message, ok |-> r.ok,
              results |-> [k \in 1..Len(kept) |-> NoteSearchResult(note_row(kept[k], TRUE))]]

semantic_search(embedding, db, query, note_type, limit, patient_id, admission_id) ==
    LET cypher_query == <<"CALL db.index.vector.queryNodes($index_name, $limit, $query_embedding)",
                          "YIELD node, score", "WHERE">>
                        \o JoinAnd(semantic_search_conditions(note_type, patient_id, admission_id))
                        \o <<"RETURN node.note_id as note_id, node.note_type as note_type, node.subject_id as subject_id, node.hadm_id as hadm_id, node.charttime as charttime, node.text as text, score">>
        params == [admission_id |-> admission_id, index_name |-> NOTE_EMBEDDINGS_INDEX,
                   limit |-> limit * 2, patient_id |-> patient_id,
                   query_embedding |-> "embedding"]
        r == execute_read(db)
        kept == SubSeq(r.rows, 1, Min(limit, Len(r.rows)))
    IN  IF embedding.raise
        THEN [calls |-> <<EmbeddingCall(query)>>, message |-> "", ok |-> TRUE, results |-> <<>>]
        ELSE [calls |-> <<EmbeddingCall(query), ReadCall(cypher_query, params)>>,
              message |-> r.message, ok |-> r.ok,
              results |-> [k \in 1..Len(kept) |-> NoteSearchResult(note_row(kept[k], TRUE))]]

search_notes(embedding, db, query, note_type, limit, semantic, patient_id, admission_id, format, key) ==
    LET s == IF semantic
             THEN semantic_search(embedding, db, query, note_type, limit, patient_id, admission_id)
             ELSE text_search(db, query, note_type, limit, patient_id, admission_id)
    IN  IF search_notes_key_missing(semantic, key)
        THEN Outcome(<<>>, Returned("json", [error |-> SEMANTIC_KEY_ERROR]))
        ELSE IF ~s.ok THEN Outcome(s.calls, Raised(s.message))
        ELSE IF format = OUTPUT_FORMAT_TABLE
        THEN Outcome(s.calls, Returned("table",
                 IF NonEmpty(s.results) THEN [table |-> s.results] ELSE [text |-> "No notes found."]))
        ELSE IF format = OUTPUT_FORMAT_TEXT
        THEN Outcome(s.calls, Returned("text",
                 IF NonEmpty(s.results) THEN [notes |-> s.results] ELSE [text |-> "No notes found."]))
        ELSE Outcome(s.calls, Returned("json", [list |-> s.results]))

----------------------------------------------------------------------------
(* functionality/get_schema.py *)

get_schema(schema, format) ==
    IF schema.raise THEN Outcome(<<SchemaCall>>, Raised(schema.message))
    ELSE IF format = OUTPUT_FORMAT_MARKDOWN
    THEN Outcome(<<SchemaCall>>, Returned("markdown", [schema |-> "markdown"]))
    ELSE Outcome(<<SchemaCall>>, Returned("json", [schema |-> "json"]))

----------------------------------------------------------------------------
(* Python str, as a sequence of characters *)

IsSpace(c) == c \in {" ", "\n", "\t"}

RECURSIVE LStrip(_)
LStrip(s) == IF Len(s) > 0 /\ IsSpace(Head(s)) THEN LStrip(Tail(s)) ELSE s

RECURSIVE RStrip(_)
RStrip(s) == IF Len(s) > 0 /\ IsSpace(s[Len(s)]) THEN RStrip(SubSeq(s, 1, Len(s) - 1)) ELSE s

\* str.strip()
Strip(s) == RStrip(LStrip(s))

\* str.startswith(prefix)
StartsWith(s, prefix) == Len(s) >= Len(prefix) /\ SubSeq(s, 1, Len(prefix)) = prefix

\* str.split(sep): the pieces between the non-overlapping occurrences of sep,
\* found left to right; piece holds the characters read since the last one.
RECURSIVE SplitFrom(_, _, _)
SplitFrom(s, sep, piece) ==
    IF Len(s) = 0 THEN <<piece>>
    ELSE IF StartsWith(s, sep)
    THEN <<piece>> \o SplitFrom(SubSeq(s, Len(sep) + 1, Len(s)), sep, <<>>)
    ELSE SplitFrom(Tail(s), sep, Append(piece, Head(s)))

Split(s, sep) == SplitFrom(s, sep, <<>>)

----------------------------------------------------------------------------
(* functionality/natural_query.py *)

\* The backtick, which a TLA+ string cannot hold, by name.
BACKTICK == "backtick"
FENCE == <<BACKTICK, BACKTICK, BACKTICK>>
CYPHER == <<"c", "y", "p", "h", "e", "r">>

\* Clean up the query: strip, drop the code fence when the text starts with
\* one, drop a leading "cypher", strip again.
clean_cypher_query(content) ==
    LET stripped == Strip(content)
        inner == Split(stripped, FENCE)[2]
    IN  IF StartsWith(stripped, FENCE)
        THEN Strip(IF StartsWith(inner, CYPHER) THEN SubSeq(inner, 7, Len(inner)) ELSE inner)
        ELSE Strip(stripped)

EXECUTION_ERROR == "Failed to execute generated query"
PROCESS_ERROR == "Failed to process natural language query"
NATURAL_QUERY_KEY_ERROR == "OpenAI API key is required for natural language queries"

\* A mutation of execution_error: the payload carries the raw response.
execution_error_raw(content, cypher_query, message) ==
    [details |-> message, error |-> EXECUTION_ERROR, query |-> content]

\* The payload of the inner except, around the execution of the query.
execution_error(content, cypher_query, message) ==
    [details |-> message, error |-> EXECUTION_ERROR, query |-> cypher_query]

\* A mutation of process_error: the message of the failure is dropped.
process_error_no_details(message) == [details |-> "", error |-> PROCESS_ERROR]

\* The payload of the outer except, around the whole component.
process_error(message) == [details |-> message, error |-> PROCESS_ERROR]

NoParams == [none |-> TRUE]

\* json.dumps of the envelope: the text, or the TypeError json raises for a
\* value it cannot hold (a temporal value of the database inside a row).
JsonOutcomes == {[message |-> "", raise |-> FALSE],
                 [message |-> "Object of type DateTime is not JSON serializable", raise |-> TRUE]}

\* A mutation of response_data: the count is the number of distinct rows.
response_data_distinct_count(query, cypher_query, results) ==
    [count |-> Cardinality({results[i] : i \in DOMAIN results}), cypher_query |-> cypher_query,
     question |-> query, results |-> results]

\* The envelope of a successful run.
response_data(query, cypher_query, results) ==
    [count |-> Len(results), cypher_query |-> cypher_query,
     question |-> query, results |-> results]

natural_query(schema, llm, db, dumps, query, limit, format, key) ==
    LET cypher_query == clean_cypher_query(llm.content)
        r == execute_read(db)
        issued == <<SchemaCall, ChatCall(query, limit), ReadCall(cypher_query, NoParams)>>
    IN  IF schema.raise
        THEN Outcome(<<SchemaCall>>, Returned("json", process_error(schema.message)))
        ELSE IF llm.raise
        THEN Outcome(<<SchemaCall, ChatCall(query, limit)>>,
                     Returned("json", process_error(llm.message)))
        ELSE IF ~r.ok
        THEN Outcome(issued, Returned("json", execution_error(llm.content, cypher_query, r.message)))
        ELSE IF format = OUTPUT_FORMAT_MARKDOWN
        THEN Outcome(issued, Returned("markdown", response_data(query, cypher_query, r.rows)))
        ELSE IF format = OUTPUT_FORMAT_TABLE
        THEN Outcome(issued, Returned("table", response_data(query, cypher_query, r.rows)))
        ELSE IF dumps.raise /\ NonEmpty(r.rows)
        THEN Outcome(issued, Returned("json", process_error(dumps.message)))
        ELSE Outcome(issued, Returned("json", response_data(query, cypher_query, r.rows)))

\* The responses the chat completion is scripted with: a query body, maybe
\* inside a code fence that may carry a language tag, with whitespace around.
Bodies == {<<"M", " ", "p">>, <<"R">>}
Tags == {<<>>, CYPHER, <<"s", "q", "l">>}
Pads == {<<>>, <<"\n">>}

FencedReply(pre, tag, body, inner, post) ==
    [body |-> body, content |-> pre \o FENCE \o tag \o <<"\n">> \o body \o inner \o FENCE \o post,
     fenced |-> TRUE, message |-> "", raise |-> FALSE, tag |-> tag]

PlainReply(pre, body, post) ==
    [body |-> body, content |-> pre \o body \o post,
     fenced |-> FALSE, message |-> "", raise |-> FALSE, tag |-> <<>>]

ChatOutcomes ==
    {[body |-> <<>>, content |-> <<>>, fenced |-> FALSE, message |-> "API Error",
      raise |-> TRUE, tag |-> <<>>]}
    \cup {FencedReply(pre, tag, body, inner, post) :
            pre \in {<<>>, <<" ">>}, tag \in Tags, body \in Bodies, inner \in Pads, post \in Pads}
    \cup {PlainReply(pre, body, post) : pre \in {<<>>, <<" ">>}, body \in Bodies, post \in Pads}

----------------------------------------------------------------------------
(* The database the patient query runs against *)

Categories == {"admissions", "diagnoses", "procedures", "medications", "lab_events"}
Clinical == Categories \ {"admissions"}

\* A database: the patient each admission hangs from (HAS_ADMISSION) and the
\* admission the items of every clinical category hang from (HAS_DIAGNOSIS,
\* HAS_PROCEDURE, HAS_MEDICATION, INCLUDES_LAB_EVENT).
Graphs == [admOwner : [Admissions -> Patients], itemAdm : [Items -> Admissions]]

AdmissionsOf(g, p) == {a \in Admissions : g.admOwner[a] = p}
ItemsOf(g, a) == {i \in Items : g.itemAdm[i] = a}

\* What the read of the patient query meets: a database holding some graph,
\* which answers the query or raises.
PatientDbOutcomes ==
    {[graph |-> g, message |-> IF failed THEN "Neo4jError" ELSE "", raise |-> failed] :
        g \in Graphs, failed \in BOOLEAN}

----------------------------------------------------------------------------
(* functionality/patient.py: the query *)

MATCH_PATIENT == "MATCH (p:Patient {subject_id: $subject_id})"
MATCH_ADMISSIONS == "OPTIONAL MATCH (p)-[:HAS_ADMISSION]->(a:Admission)"
MATCH_DIAGNOSES == "OPTIONAL MATCH (a)-[:HAS_DIAGNOSIS]->(d:Diagnosis)"
MATCH_PROCEDURES == "OPTIONAL MATCH (a)-[:HAS_PROCEDURE]->(proc:Procedure)"
MATCH_MEDICATIONS == "OPTIONAL MATCH (a)-[:HAS_MEDICATION]->(m:Medication)"
MATCH_LAB_EVENTS == "OPTIONAL MATCH (a)-[:INCLUDES_LAB_EVENT]->(l:LabEvent)"

RETURN_ADMISSIONS == "COLLECT(DISTINCT a) as admissions"
RETURN_DIAGNOSES == "COLLECT(DISTINCT d) as diagnoses"
RETURN_PROCEDURES == "COLLECT(DISTINCT proc) as procedures"
RETURN_MEDICATIONS == "COLLECT(DISTINCT m) as medications"
RETURN_LAB_EVENTS == "COLLECT(DISTINCT l) as lab_events"

\* query_parts and return_parts, one entry per flag that is set.
patient_query(include) ==
    [match |-> <<MATCH_PATIENT>>
               \o (IF include["admissions"] THEN <<MATCH_ADMISSIONS>> ELSE <<>>)
               \o (IF include["diagnoses"] THEN <<MATCH_DIAGNOSES>> ELSE <<>>)
               \o (IF include["procedures"] THEN <<MATCH_PROCEDURES>> ELSE <<>>)
               \o (IF include["medications"] THEN <<MATCH_MEDICATIONS>> ELSE <<>>)
               \o (IF include["lab_events"] THEN <<MATCH_LAB_EVENTS>> ELSE <<>>),
     returns |-> <<"p">>
               \o (IF include["admissions"] THEN <<RETURN_ADMISSIONS>> ELSE <<>>)
               \o (IF include["diagnoses"] THEN <<RETURN_DIAGNOSES>> ELSE <<>>)
               \o (IF include["procedures"] THEN <<RETURN_PROCEDURES>> ELSE <<>>)
               \o (IF include["medications"] THEN <<RETURN_MEDICATIONS>> ELSE <<>>)
               \o (IF include["lab_events"] THEN <<RETURN_LAB_EVENTS>> ELSE <<>>)]

----------------------------------------------------------------------------
(* What the database answers to the patient query: Cypher's reading of    *)
(* MATCH, OPTIONAL MATCH and COLLECT(DISTINCT ...) on a graph.            *)

NullAdmission == "null"
NullItem == 0

\* The variable bindings of one intermediate row: a, and d, proc, m, l
\* under the name of their category.
UnboundRow == [admission |-> NullAdmission, diagnoses |-> NullItem, lab_events |-> NullItem,
               medications |-> NullItem, procedures |-> NullItem]

ClauseCategory(line) ==
    IF line = MATCH_DIAGNOSES THEN "diagnoses"
    ELSE IF line = MATCH_PROCEDURES THEN "procedures"
    ELSE IF line = MATCH_MEDICATIONS THEN "medications"
    ELSE "lab_events"

\* OPTIONAL MATCH (p)-[:HAS_ADMISSION]->(a:Admission): a ranges over the
\* admissions of p, and is null when p has none.
MatchAdmissions(g, p, rows) ==
    UNION {IF AdmissionsOf(g, p) = {} THEN {r}
           ELSE {[r EXCEPT !.admission = a] : a \in AdmissionsOf(g, p)} : r \in rows}

\* OPTIONAL MATCH (a)-[:REL]->(x) when a is already bound: x ranges over the
\* items of a, and is null when a is null or has none.
MatchItemsOfBound(g, c, rows) ==
    UNION {IF r.admission = NullAdmission \/ ItemsOf(g, r.admission) = {} THEN {r}
           ELSE {[r EXCEPT ![c] = i] : i \in ItemsOf(g, r.admission)} : r \in rows}

\* The same clause when no earlier clause introduced a: a is a new variable
\* and the pattern matches every admission that has such an item.
MatchItemsOfAny(g, c, rows) ==
    UNION {{[r EXCEPT !.admission = g.itemAdm[i], ![c] = i] : i \in Items} : r \in rows}

RECURSIVE EvalClauses(_, _, _, _, _)
EvalClauses(g, p, lines, bound, rows) ==
    IF Len(lines) = 0 THEN rows
    ELSE IF Head(lines) = MATCH_ADMISSIONS
    THEN EvalClauses(g, p, Tail(lines), TRUE, MatchAdmissions(g, p, rows))
    ELSE IF bound
    THEN EvalClauses(g, p, Tail(lines), TRUE,
                     MatchItemsOfBound(g, ClauseCategory(Head(lines)), rows))
    ELSE EvalClauses(g, p, Tail(lines), TRUE,
                     MatchItemsOfAny(g, ClauseCategory(Head(lines)), rows))

Range(f) == {f[i] : i \in DOMAIN f}

ReturnAlias(part) ==
    IF part = RETURN_ADMISSIONS THEN "admissions"
    ELSE IF part = RETURN_DIAGNOSES THEN "diagnoses"
    ELSE IF part = RETURN_PROCEDURES THEN "procedures"
    ELSE IF part = RETURN_MEDICATIONS THEN "medications"
    ELSE "lab_events"

\* The rows of the patient query: none when no patient has the subject id,
\* else one row, with p and one collected list per returned alias (keys); a
\* COLLECT is a list, never null, so no alias is in nulls.
run_patient_query(g, query, subject_id) ==
    LET rows == EvalClauses(g, subject_id, Tail(query.match), FALSE, {UnboundRow})
        aliases == {ReturnAlias(part) : part \in Range(query.returns) \ {"p"}}
        collected == [c \in Categories |->
                        IF c \notin aliases THEN {}
                        ELSE IF c = "admissions"
                        THEN {r.admission : r \in rows} \ {NullAdmission}
                        ELSE {r[c] : r \in rows} \ {NullItem}]
    IN  IF subject_id \notin Patients THEN <<>>
        ELSE <<[keys |-> aliases, nulls |-> {}, p |-> subject_id, values |-> collected]>>

----------------------------------------------------------------------------
(* functionality/patient.py: the response *)

NotFoundError(subject_id) == "Patient " \o subject_id \o " not found"

\* A mutation of patient_not_found: the test is for None, which a row list
\* never is.
patient_not_found_none_only(results) == FALSE

\* if not results
patient_not_found(results) == ~NonEmpty(results)

\* A mutation of patient_response: the categories start as empty lists
\* instead of None.
patient_response_empty_defaults(include, row) ==
    [lists |-> [c \in Categories |->
                  IF include[c] /\ c \in row.keys /\ (c = "admissions" \/ c \notin row.nulls)
                  THEN [items |-> row.values[c], set |-> TRUE]
                  ELSE [items |-> {}, set |-> TRUE]],
     patient |-> row.p]

\* PatientResponse(patient=patient), then one assignment per category whose
\* flag is set and whose alias is in the row; the four clinical categories
\* also test that the value is not None.
patient_response(include, row) ==
    [lists |-> [c \in Categories |->
                  IF include[c] /\ c \in row.keys /\ (c = "admissions" \/ c \notin row.nulls)
                  THEN [items |-> row.values[c], set |-> TRUE]
                  ELSE [items |-> {}, set |-> FALSE]],
     patient |-> row.p]

\* response.model_dump_json(exclude_none=True): a category that was never
\* assigned is left out.
model_dump_json(response) ==
    [categories |-> {c \in Categories : response.lists[c].set},
     items |-> [c \in Categories |-> response.lists[c].items],
     patient |-> response.patient]

\* The table has the patient block and, when there are admissions, theirs.
format_patient_as_table(response) ==
    [categories |-> {c \in {"admissions"} : response.lists[c].set /\ response.lists[c].items # {}},
     items |-> [c \in Categories |-> IF c = "admissions" THEN response.lists[c].items ELSE {}],
     patient |-> response.patient]

get_patient(db, subject_id, include, format) ==
    LET query == patient_query(include)
        r == execute_read([message |-> db.message, raise |-> db.raise,
                           rows |-> IF "graph" \in DOMAIN db
                                    THEN run_patient_query(db.graph, query, subject_id)
                                    ELSE db.rows])
        issued == <<ReadCall(query, [subject_id |-> subject_id])>>
        \* for a in result['admissions'], when the value is None
        iterates_none == /\ include["admissions"]
                         /\ "admissions" \in r.rows[1].keys
                         /\ "admissions" \in r.rows[1].nulls
    IN  IF ~r.ok THEN Outcome(issued, Raised(r.message))
        ELSE IF patient_not_found(r.rows)
        THEN Outcome(issued, Returned("json", [error |-> NotFoundError(subject_id)]))
        ELSE IF ~NonEmpty(r.rows) THEN Outcome(issued, Raised("IndexError"))
        ELSE IF iterates_none THEN Outcome(issued, Raised("TypeError"))
        ELSE IF format = OUTPUT_FORMAT_TABLE
        THEN Outcome(issued, Returned("table",
                 format_patient_as_table(patient_response(include, r.rows[1]))))
        ELSE Outcome(issued, Returned("json",
                 model_dump_json(patient_response(include, r.rows[1]))))

----------------------------------------------------------------------------
(* server.py: the tools of create_mcp_server *)

Idle == tool = "none"

NoArgs == [none |-> TRUE]
NoResult == [body |-> [none |-> TRUE], format |-> "none", type |-> "none"]

\* A tool runs its component to completion and hands its string to the runtime.
Invoke(name, a, e, out) ==
    /\ tool' = name
    /\ args' = a
    /\ env' = e
    /\ calls' = out.calls
    /\ result' = out.result
    /\ UNCHANGED <<otherVars, openai_api_key, serverVars, processVars>>

ehr_patient ==
    /\ Idle
    /\ \E subject_id \in SubjectIds, include \in [Categories -> BOOLEAN],
          format \in OutputFormat, db \in PatientDbOutcomes :
        Invoke("ehr_patient",
               [format |-> format,
                include_admissions |-> include["admissions"],
                include_diagnoses |-> include["diagnoses"],
                include_lab_events |-> include["lab_events"],
                include_medications |-> include["medications"],
                include_procedures |-> include["procedures"],
                subject_id |-> subject_id],
               [db |-> db],
               get_patient(db, subject_id, include, format))

ehr_list_diagnoses ==
    /\ Idle
    /\ \E patient_id \in OptPatientIds, admission_id \in OptAdmissionIds,
       limit \in Limits, format \in OutputFormat, db \in DbOutcomes :
        Invoke("ehr_list_diagnoses",
               [admission_id |-> admission_id, format |-> format,
                limit |-> limit, patient_id |-> patient_id],
               [db |-> db],
               list_diagnoses(db, patient_id, admission_id, limit, format))

ehr_list_procedures ==
    /\ Idle
    /\ \E patient_id \in OptPatientIds, admission_id \in OptAdmissionIds,
       limit \in Limits, format \in OutputFormat, db \in DbOutcomes :
        Invoke("ehr_list_procedures",
               [admission_id |-> admission_id, format |-> format,
                limit |-> limit, patient_id |-> patient_id],
               [db |-> db],
               list_procedures(db, patient_id, admission_id, limit, format))

ehr_list_medications ==
    /\ Idle
    /\ \E patient_id \in OptPatientIds, admission_id \in OptAdmissionIds,
       medication \in OptFilters, route \in OptFilters,
       limit \in Limits, format \in OutputFormat, db \in DbOutcomes :
        Invoke("ehr_list_medications",
               [admission_id |-> admission_id, format |-> format,
                limit |-> limit, medication |-> medication,
                patient_id |-> patient_id, route |-> route],
               [db |-> db],
               list_medications(db, patient_id, admission_id, medication, route, limit, format))

ehr_list_lab_events ==
    /\ Idle
    /\ \E patient_id \in Patients, admission_id \in OptAdmissionIds,
       abnormal_only \in BOOLEAN, category \in OptFilters,
       limit \in Limits, format \in OutputFormat, db \in DbOutcomes :
        Invoke("ehr_list_lab_events",
               [abnormal_only |-> abnormal_only, admission_id |-> admission_id,
                category |-> category, format |-> format,
                limit |-> limit, patient_id |-> patient_id],
               [db |-> db],
               list_lab_events(db, patient_id, admission_id, abnormal_only, category, limit, format))

ehr_search_notes ==
    /\ Idle
    /\ \E query \in {"", "heart failure"}, note_type \in NoteType,
       limit \in {1, DEFAULT_NOTE_SEARCH_LIMIT}, semantic \in BOOLEAN,
       patient_id \in {None, "p1"}, admission_id \in {None, "a1"},
       format \in OutputFormat, embedding \in EmbeddingOutcomes, db \in DbOutcomes :
        Invoke("ehr_search_notes",
               [admission_id |-> admission_id, format |-> format, limit |-> limit,
                note_type |-> note_type, patient_id |-> patient_id,
                query |-> query, semantic |-> semantic],
               [db |-> db, embedding |-> embedding],
               search_notes(embedding, db, query, note_type, limit, semantic,
                            patient_id, admission_id, format, openai_api_key))

ehr_get_schema ==
    /\ Idle
    /\ \E format \in OutputFormat, schema \in SchemaOutcomes :
        Invoke("ehr_get_schema", [format |-> format], [schema |-> schema],
               get_schema(schema, format))

\* A mutation of natural_query_key_missing: only an absent key is refused.
natural_query_key_missing_none_only(key) == key = None

\* The guard of ehr_natural_query: not openai_api_key.
natural_query_key_missing(key) == ~Truthy(key)

ehr_natural_query ==
    /\ Idle
    /\ \E query \in {"how many patients", "list admissions"},
          limit \in {DEFAULT_NATURAL_QUERY_LIMIT}, format \in OutputFormat,
          schema \in SchemaOutcomes, llm \in ChatOutcomes, db \in DbOutcomes,
          dumps \in JsonOutcomes :
        Invoke("ehr_natural_query",
               [format |-> format, limit |-> limit, query |-> query],
               [db |-> db, dumps |-> dumps, llm |-> llm, schema |-> schema],
               IF natural_query_key_missing(openai_api_key)
               THEN Outcome(<<>>, Returned("json", [error |-> NATURAL_QUERY_KEY_ERROR]))
               ELSE natural_query(schema, llm, db, dumps, query, limit, format, openai_api_key))

\* The runtime delivers the tool's result; the server keeps nothing of the
\* invocation (stateless_http) and is ready for the next request.
respond ==
    /\ ~Idle
    /\ tool' = "none"
    /\ args' = NoArgs
    /\ env' = NoArgs
    /\ calls' = <<>>
    /\ result' = NoResult
    /\ instance' = 0
    /\ UNCHANGED <<otherVars, openai_api_key, servers, created, processVars>>

----------------------------------------------------------------------------

Init ==
    /\ openai_api_key \in Keys
    /\ tool = "none"
    /\ args = NoArgs
    /\ env = NoArgs
    /\ calls = <<>>
    /\ result = NoResult
    /\ servers = <<>>
    /\ created = <<>>
    /\ instance = 0
    /\ cli = NoArgs
    /\ pc = "serving"
    /\ connection = NoArgs
    /\ driver_calls = <<>>
    /\ history = <<>>
    /\ validator = NoArgs
    /\ client = NoArgs
    /\ loop = NoArgs

Next ==
    \/ ehr_patient
    \/ ehr_search_notes
    \/ ehr_list_diagnoses
    \/ ehr_list_procedures
    \/ ehr_list_medications
    \/ ehr_list_lab_events
    \/ ehr_get_schema
    \/ ehr_natural_query
    \/ respond

Spec == Init /\ [][Next]_vars

----------------------------------------------------------------------------
(* server.py: create_mcp_server, and several instances in one process *)

ToolNames == {"ehr_patient", "ehr_search_notes", "ehr_list_diagnoses", "ehr_list_lab_events",
              "ehr_list_medications", "ehr_list_procedures", "ehr_natural_query",
              "ehr_get_schema"}

\* The annotations every @mcp.tool decorator of create_mcp_server passes.
ToolAnnotations ==
    [destructiveHint |-> FALSE, idempotentHint |-> TRUE, readOnlyHint |-> TRUE]

\* Neo4jConnection.__init__: the wrapper keeps the driver and the database name.
Neo4jConnection(driver, database) == [database |-> database, driver |-> driver]

\* A mutation of create_mcp_server: the natural-language tool is registered
\* only when a key was given.
create_mcp_server_tools_by_key(neo4j_driver, database, key) ==
    [db_connection |-> Neo4jConnection(neo4j_driver, database),
     name |-> "mcp-server-neo4j-ehr",
     openai_api_key |-> key,
     stateless_http |-> TRUE,
     tools |-> [n \in (IF Truthy(key) THEN ToolNames ELSE ToolNames \ {"ehr_natural_query"})
                  |-> ToolAnnotations]]

\* The instance create_mcp_server returns: the runtime object with its
\* registry, and the two cells its tools closed over, db_connection and
\* openai_api_key, which belong to this call alone.
create_mcp_server(neo4j_driver, database, key) ==
    [db_connection |-> Neo4jConnection(neo4j_driver, database),
     name |-> "mcp-server-neo4j-ehr",
     openai_api_key |-> key,
     stateless_http |-> TRUE,
     tools |-> [n \in ToolNames |-> ToolAnnotations]]

\* The drivers and database names a server is created with: two drivers on
\* the default database, and a second database on the first driver.
DriverArgs == {[database |-> "neo4j", neo4j_driver |-> "d1"],
               [database |-> "neo4j", neo4j_driver |-> "d2"],
               [database |-> "mimic", neo4j_driver |-> "d1"]}
Connections == {Neo4jConnection(c.neo4j_driver, c.database) : c \in DriverArgs}
ServerKeys == {None, "sk-1", "sk-2"}

\* What the database behind one connection answers to the read of a tool:
\* the rows of the graph it holds, or the database's error.
ServerDbOutcomes ==
    {[graph |-> [admOwner |-> [a \in Admissions |-> IF a = "a1" THEN "p2" ELSE "p1"],
                 itemAdm |-> [i \in Items |-> "a2"]],
      message |-> "", raise |-> FALSE, rows |-> <<2, 1>>],
     [graph |-> [admOwner |-> [a \in Admissions |-> "p2"],
                 itemAdm |-> [i \in Items |-> "a1"]],
      message |-> "Neo4jError", raise |-> TRUE, rows |-> <<>>]}

\* The LLM client of a component is built from the key it was handed: the
\* service answers under that key, and refuses a key it does not know.
ServiceUnder(answers, key) ==
    IF key \in DOMAIN answers THEN answers[key]
    ELSE [body |-> <<>>, content |-> <<>>, fenced |-> FALSE, message |-> "AuthenticationError",
          raise |-> TRUE, tag |-> <<>>]

\* What the collaborators of the process answer during one invocation: the
\* database of every connection, and the LLM service under every key.
ServerEnvs(name) ==
    {[dbs |-> dbs, dumps |-> [message |-> "", raise |-> FALSE], embedding |-> embedding,
      llm |-> llm, schema |-> [message |-> "", raise |-> FALSE]] :
        dbs \in (IF name = "ehr_get_schema" THEN {[c \in Connections |-> CHOOSE o \in ServerDbOutcomes : o.raise]}
                 ELSE [Connections -> ServerDbOutcomes]),
        embedding \in (IF name = "ehr_search_notes"
                       THEN [ServerKeys \ {None} -> EmbeddingOutcomes]
                       ELSE {[k \in ServerKeys \ {None} |-> [message |-> "", raise |-> FALSE]]}),
        llm \in (IF name = "ehr_natural_query"
                 THEN [ServerKeys \ {None} ->
                         {PlainReply(<<>>, <<"R">>, <<>>), ServiceUnder(<<>>, None)}]
                 ELSE {[k \in ServerKeys \ {None} |-> PlainReply(<<>>, <<"R">>, <<>>)]})}

\* The arguments the runtime passes, after the defaults of the signature.
ServerArgs(name) ==
    CASE name = "ehr_patient" ->
            {[format |-> f, include_admissions |-> TRUE, include_diagnoses |-> d,
              include_lab_events |-> FALSE, include_medications |-> FALSE,
              include_procedures |-> FALSE, subject_id |-> id] :
                f \in {OUTPUT_FORMAT_JSON, OUTPUT_FORMAT_TABLE}, d \in BOOLEAN, id \in SubjectIds}
      [] name = "ehr_search_notes" ->
            {[admission_id |-> None, format |-> OUTPUT_FORMAT_JSON, limit |-> 1,
              note_type |-> NOTE_TYPE_ALL, patient_id |-> None, query |-> "heart failure",
              semantic |-> sem] : sem \in BOOLEAN}
      [] name \in {"ehr_list_diagnoses", "ehr_list_procedures"} ->
            {[admission_id |-> None, format |-> f, limit |-> DEFAULT_LIMIT, patient_id |-> id] :
                f \in {OUTPUT_FORMAT_JSON, OUTPUT_FORMAT_TABLE}, id \in {None, "p1"}}
      [] name = "ehr_list_medications" ->
            {[admission_id |-> id, format |-> OUTPUT_FORMAT_JSON, limit |-> DEFAULT_LIMIT,
              medication |-> None, patient_id |-> None, route |-> r] :
                id \in {None, "a1"}, r \in OptFilters}
      [] name = "ehr_list_lab_events" ->
            {[abnormal_only |-> ab, admission_id |-> None, category |-> None,
              format |-> OUTPUT_FORMAT_JSON, limit |-> DEFAULT_LIMIT, patient_id |-> "p1"] :
                ab \in BOOLEAN}
      [] name = "ehr_natural_query" ->
            {[format |-> f, limit |-> DEFAULT_NATURAL_QUERY_LIMIT, query |-> "how many patients"] :
                f \in {OUTPUT_FORMAT_JSON, OUTPUT_FORMAT_MARKDOWN}}
      [] OTHER ->
            {[format |-> f] : f \in {OUTPUT_FORMAT_JSON, OUTPUT_FORMAT_MARKDOWN}}

\* The function behind each tool name: the body of the decorated coroutine,
\* reading db_connection and openai_api_key from the cells it closed over.
tool_fn(db_connection, key, name, a, e) ==
    LET db == e.dbs[db_connection]
    IN  CASE name = "ehr_patient" ->
                get_patient(db, a.subject_id,
                            [c \in Categories |->
                               CASE c = "admissions" -> a.include_admissions
                                 [] c = "diagnoses" -> a.include_diagnoses
                                 [] c = "procedures" -> a.include_procedures
                                 [] c = "medications" -> a.include_medications
                                 [] OTHER -> a.include_lab_events],
                            a.format)
          [] name = "ehr_search_notes" ->
                search_notes(ServiceUnder(e.embedding, key), db, a.query, a.note_type, a.limit,
                             a.semantic, a.patient_id, a.admission_id, a.format, key)
          [] name = "ehr_list_diagnoses" ->
                list_diagnoses(db, a.patient_id, a.admission_id, a.limit, a.format)
          [] name = "ehr_list_lab_events" ->
                list_lab_events(db, a.patient_id, a.admission_id, a.abnormal_only,
                                a.category, a.limit, a.format)
          [] name = "ehr_list_medications" ->
                list_medications(db, a.patient_id, a.admission_id, a.medication,
                                 a.route, a.limit, a.format)
          [] name = "ehr_list_procedures" ->
                list_procedures(db, a.patient_id, a.admission_id, a.limit, a.format)
          [] name = "ehr_natural_query" ->
                IF natural_query_key_missing(key)
                THEN Outcome(<<>>, Returned("json", [error |-> NATURAL_QUERY_KEY_ERROR]))
                ELSE natural_query(e.schema, ServiceUnder(e.llm, key), db, e.dumps,
                                   a.query, a.limit, a.format, key)
          [] OTHER -> get_schema(e.schema, a.format)

\* A mutation of run_tool: the connection and the key are process-wide state,
\* set by the latest create_mcp_server, and the tools of every instance read it.
run_tool_process_wide(instances, i, name, a, e) ==
    tool_fn(instances[Len(instances)].db_connection, instances[Len(instances)].openai_api_key,
            name, a, e)

\* The runtime runs a tool of the i-th instance: the function registered
\* under the name, with the cells of the create_mcp_server call that made it.
run_tool(instances, i, name, a, e) ==
    tool_fn(instances[i].db_connection, instances[i].openai_api_key, name, a, e)

\* A test, or an embedding process, creates a server instance.
new_server ==
    /\ Idle
    /\ Len(servers) < MaxServers
    /\ \E c \in DriverArgs, key \in ServerKeys :
        /\ created' = Append(created, [database |-> c.database, neo4j_driver |-> c.neo4j_driver,
                                       openai_api_key |-> key])
        /\ servers' = Append(servers, create_mcp_server(c.neo4j_driver, c.database, key))
    /\ UNCHANGED <<otherVars, openai_api_key, tool, args, env, calls, result, instance, processVars>>

\* The runtime of one instance dispatches a call of one of its tools.
call_tool ==
    /\ Idle
    /\ \E i \in 1..Len(servers) :
        \E name \in DOMAIN servers[i].tools :
            \E a \in ServerArgs(name), e \in ServerEnvs(name) :
                /\ instance' = i
                /\ tool' = name
                /\ args' = a
                /\ env' = e
                /\ calls' = run_tool(servers, i, name, a, e).calls
                /\ result' = run_tool(servers, i, name, a, e).result
                /\ UNCHANGED <<otherVars, openai_api_key, servers, created, processVars>>

ServersInit ==
    /\ openai_api_key = None
    /\ tool = "none"
    /\ args = NoArgs
    /\ env = NoArgs
    /\ calls = <<>>
    /\ result = NoResult
    /\ servers = <<>>
    /\ created = <<>>
    /\ instance = 0
    /\ cli = NoArgs
    /\ pc = "serving"
    /\ connection = NoArgs
    /\ driver_calls = <<>>
    /\ history = <<>>
    /\ validator = NoArgs
    /\ client = NoArgs
    /\ loop = NoArgs

ServersNext ==
    \/ new_server
    \/ call_tool
    \/ respond

ServersSpec == ServersInit /\ [][ServersNext]_vars

----------------------------------------------------------------------------
(* __main__.py and server.py: the process, from the command line to exit *)

\* What the process is started with: the flags given (None when a flag is
\* absent) and the variables of the environment, .env file included.
CliInputs ==
    [neo4j_password : {None, "", "secret"},
     neo4j_uri : {"bolt://localhost:7687", "localhost"},
     openai_api_key : {None, "sk-test"},
     transport : {"stdio", "sse", "http"},
     NEO4J_PASSWORD : {None, "", "envpw"}]

\* args.neo4j_password after parse_args: the flag, else the default of the
\* flag, os.getenv("NEO4J_PASSWORD", "password").
neo4j_password(c) ==
    IF c.neo4j_password # None THEN c.neo4j_password
    ELSE IF c.NEO4J_PASSWORD # None THEN c.NEO4J_PASSWORD
    ELSE "password"

\* __main__.main up to asyncio.run: parse the arguments, refuse an empty
\* password with parser.error (exit status 2), else enter the server's main.
cli_main ==
    /\ pc = "start"
    /\ pc' = IF ~Truthy(neo4j_password(cli)) THEN "usage_error" ELSE "main"
    /\ UNCHANGED <<otherVars, openai_api_key, tool, args, env, calls, result, serverVars,
                   cli, connection, driver_calls, history>>

\* server.main up to server.run: create_neo4j_driver, which raises on a URI
\* without a scheme, then create_mcp_server, which wraps the driver.
start_server ==
    /\ pc = "main"
    /\ IF cli.neo4j_uri = "localhost"
       THEN /\ pc' = "failed"
            /\ UNCHANGED connection
       ELSE /\ pc' = "serving"
            /\ connection' = create_mcp_server(
                                 [auth |-> neo4j_password(cli), uri |-> cli.neo4j_uri],
                                 "neo4j", cli.openai_api_key).db_connection
    /\ UNCHANGED <<otherVars, openai_api_key, tool, args, env, calls, result, serverVars,
                   cli, driver_calls, history>>

\* server.run returns: main goes on to driver.close() and returns.
transport_returns ==
    /\ pc = "serving"
    /\ cli # NoArgs
    /\ driver_calls' = Append(driver_calls, "close")
    /\ pc' = "exited"
    /\ UNCHANGED <<otherVars, openai_api_key, tool, args, env, calls, result, serverVars,
                   cli, connection, history>>

\* server.run raises: the fault leaves main through the await, and the
\* statements after it do not run.
transport_raises ==
    /\ pc = "serving"
    /\ cli # NoArgs
    /\ pc' = "failed"
    /\ UNCHANGED <<otherVars, openai_api_key, tool, args, env, calls, result, serverVars,
                   cli, connection, driver_calls, history>>

ProcessInit ==
    /\ openai_api_key = None /\ tool = "none" /\ args = NoArgs /\ env = NoArgs
    /\ calls = <<>> /\ result = NoResult
    /\ servers = <<>> /\ created = <<>> /\ instance = 0
    /\ cli \in CliInputs
    /\ pc = "start"
    /\ connection = NoArgs
    /\ driver_calls = <<>>
    /\ history = <<>>
    /\ validator = NoArgs
    /\ client = NoArgs
    /\ loop = NoArgs

ProcessNext ==
    \/ cli_main
    \/ start_server
    \/ transport_returns
    \/ transport_raises

ProcessSpec == ProcessInit /\ [][ProcessNext]_vars

----------------------------------------------------------------------------
(* db_connection.py: the connection wrapper in the hands of a client *)

\* What the read of test_connection meets: a row, the database's error, or
\* an error of the driver (not a Neo4jError).
TestReadOutcomes ==
    {[message |-> "", raise |-> FALSE, rows |-> <<1>>],
     [message |-> "Neo4jError", raise |-> TRUE, rows |-> <<>>],
     [message |-> "ServiceUnavailable", raise |-> TRUE, rows |-> <<>>]}

\* A mutation of test_connection: only the database's own error is caught.
test_connection_neo4j_error_only(conn, db) ==
    LET r == IF conn.driver = None
             THEN [message |-> "AttributeError", ok |-> FALSE, rows |-> <<>>]
             ELSE execute_read(db)
    IN  [calls |-> IF conn.driver = None THEN <<>> ELSE <<"session">>,
         returned |-> IF r.ok THEN Returned("bool", [value |-> TRUE])
                      ELSE IF r.message = "Neo4jError" THEN Returned("bool", [value |-> FALSE])
                      ELSE Raised(r.message)]

\* Neo4jConnection.test_connection: the read of "RETURN 1 as test" inside
\* try/except Exception. Without a driver the read fails on self.driver.
test_connection(conn, db) ==
    LET r == IF conn.driver = None
             THEN [message |-> "AttributeError", ok |-> FALSE, rows |-> <<>>]
             ELSE execute_read(db)
    IN  [calls |-> IF conn.driver = None THEN <<>> ELSE <<"session">>,
         returned |-> Returned("bool", [value |-> r.ok])]

\* Neo4jConnection.close: if self.driver, await self.driver.close(). The
\* wrapper keeps the driver afterwards.
close(conn) ==
    [calls |-> IF conn.driver # None THEN <<"close">> ELSE <<>>,
     returned |-> Returned("none", [value |-> None])]

call_test_connection ==
    /\ Len(history) < MaxCalls
    /\ \E db \in TestReadOutcomes :
        /\ driver_calls' = driver_calls \o test_connection(connection, db).calls
        /\ history' = Append(history, [method |-> "test_connection", read |-> db,
                                       returned |-> test_connection(connection, db).returned])
    /\ UNCHANGED <<otherVars, openai_api_key, tool, args, env, calls, result, serverVars,
                   cli, pc, connection>>

call_close ==
    /\ Len(history) < MaxCalls
    /\ driver_calls' = driver_calls \o close(connection).calls
    /\ history' = Append(history, [method |-> "close", read |-> NoArgs,
                                   returned |-> close(connection).returned])
    /\ UNCHANGED <<otherVars, openai_api_key, tool, args, env, calls, result, serverVars,
                   cli, pc, connection>>

ConnectionInit ==
    /\ openai_api_key = None /\ tool = "none" /\ args = NoArgs /\ env = NoArgs
    /\ calls = <<>> /\ result = NoResult
    /\ servers = <<>> /\ created = <<>> /\ instance = 0
    /\ cli = NoArgs
    /\ pc = "client"
    /\ connection \in {Neo4jConnection(d, "neo4j") : d \in {None, "d1"}}
    /\ driver_calls = <<>>
    /\ history = <<>>
    /\ validator = NoArgs
    /\ client = NoArgs
    /\ loop = NoArgs

ConnectionNext ==
    \/ call_test_connection
    \/ call_close

ConnectionSpec == ConnectionInit /\ [][ConnectionNext]_vars

----------------------------------------------------------------------------
(* The listing tools called twice against a database that does not change *)

\* The database as a listing query sees it: for each item 0 when the WHERE
\* clause of the query does not select it, else its rank under the sort keys
\* of the ORDER BY clause.
ListingData == [Items -> 0..NItems]

\* The answers the database may give to a listing query: the selected items,
\* in an order the ORDER BY clause of the query allows (any order among items
\* of equal rank, any order at all without the clause), cut at $limit.
run_listing_query(query, params, data) ==
    LET ordered == \E k \in DOMAIN query :
                      query[k] \in {"ORDER BY d.seq_num", "ORDER BY a.admittime DESC, d.seq_num",
                                    "ORDER BY p.seq_num", "ORDER BY p.chartdate DESC, p.seq_num",
                                    "ORDER BY m.verifiedtime DESC", "ORDER BY l.charttime DESC"}
        selected == {i \in Items : data[i] > 0}
        orders == {s \in SeqsUpTo(Items, NItems) :
                     /\ Len(s) = Cardinality(selected)
                     /\ Range(s) = selected
                     /\ ordered => \A i, j \in DOMAIN s : i < j => data[s[i]] <= data[s[j]]}
    IN  {SubSeq(s, 1, Min(params.limit, Len(s))) : s \in orders}

\* One call of a listing tool of the server: the component sends its query,
\* the database answers it from the data it holds.
ListingCalls(name, a, data) ==
    LET on(rows) == [dbs |-> [c \in {Neo4jConnection("d1", "neo4j")} |->
                                [message |-> "", raise |-> FALSE, rows |-> rows]]]
        run(rows) == tool_fn(Neo4jConnection("d1", "neo4j"), None, name, a, on(rows))
        sent == run(<<>>).calls
        answers == IF sent = <<>> THEN {<<>>}
                   ELSE run_listing_query(sent[1].query, sent[1].params, data)
    IN  {[calls |-> run(rows).calls, env |-> [data |-> data, rows |-> rows],
          result |-> run(rows).result] : rows \in answers}

list_first ==
    /\ Idle
    /\ history = <<>>
    /\ \E name \in {"ehr_list_diagnoses", "ehr_list_procedures", "ehr_list_medications",
                   "ehr_list_lab_events"} :
        \E a \in ServerArgs(name) \cup {[b EXCEPT !.limit = 1] : b \in ServerArgs(name)},
           data \in ListingData :
            \E out \in ListingCalls(name, a, data) :
                /\ tool' = name
                /\ args' = a
                /\ env' = out.env
                /\ calls' = out.calls
                /\ result' = out.result
    /\ UNCHANGED <<otherVars, openai_api_key, serverVars, cli, pc, connection, driver_calls, history>>

\* The same tool again, with the same arguments; the data is what it was.
list_again ==
    /\ ~Idle
    /\ history = <<>>
    /\ \E out \in ListingCalls(tool, args, env.data) :
        /\ history' = <<[calls |-> calls, result |-> result, rows |-> env.rows]>>
        /\ env' = out.env
        /\ calls' = out.calls
        /\ result' = out.result
    /\ UNCHANGED <<otherVars, openai_api_key, tool, args, serverVars, cli, pc, connection, driver_calls>>

ListingInit ==
    /\ openai_api_key = None /\ tool = "none" /\ args = NoArgs /\ env = NoArgs
    /\ calls = <<>> /\ result = NoResult
    /\ servers = <<>> /\ created = <<>> /\ instance = 0
    /\ cli = NoArgs
    /\ pc = "serving"
    /\ connection = Neo4jConnection("d1", "neo4j")
    /\ driver_calls = <<>>
    /\ history = <<>>
    /\ validator = NoArgs
    /\ client = NoArgs
    /\ loop = NoArgs

ListingNext ==
    \/ list_first
    \/ list_again

ListingSpec == ListingInit /\ [][ListingNext]_vars

----------------------------------------------------------------------------
(* The patient tool over a database scripted with one row *)

\* The rows a scripted database answers the patient query with: for each
\* category the row has no such key, or holds None, an empty list or a list
\* with an item under it.
ScriptedPatientRows(subject_id) ==
    {[keys |-> {c \in Categories : cell[c] # "absent"},
      nulls |-> {c \in Categories : cell[c] = "None"},
      p |-> subject_id,
      values |-> [c \in Categories |-> IF cell[c] = "items" THEN {1} ELSE {}]] :
        cell \in [Categories -> {"absent", "None", "empty", "items"}]}

ehr_patient_scripted ==
    /\ Idle
    /\ \E subject_id \in Patients, include \in [Categories -> BOOLEAN],
          format \in {OUTPUT_FORMAT_JSON, OUTPUT_FORMAT_TABLE} :
        \E row \in ScriptedPatientRows(subject_id) :
            LET db == [message |-> "", raise |-> FALSE, rows |-> <<row>>]
            IN  Invoke("ehr_patient",
                       [format |-> format,
                        include_admissions |-> include["admissions"],
                        include_diagnoses |-> include["diagnoses"],
                        include_lab_events |-> include["lab_events"],
                        include_medications |-> include["medications"],
                        include_procedures |-> include["procedures"],
                        subject_id |-> subject_id],
                       [db |-> db],
                       get_patient(db, subject_id, include, format))

PatientRowNext ==
    \/ ehr_patient_scripted
    \/ respond

PatientRowSpec == ListingInit /\ [][PatientRowNext]_vars

----------------------------------------------------------------------------
(* demo/validate_demo.py *)

\* The server and its process at rest, as the demo scripts leave them.
ServerAtRest ==
    /\ openai_api_key = None /\ tool = "none" /\ args = NoArgs /\ env = NoArgs
    /\ calls = <<>> /\ result = NoResult
    /\ servers = <<>> /\ created = <<>> /\ instance = 0
    /\ cli = NoArgs /\ pc = "serving" /\ connection = NoArgs
    /\ driver_calls = <<>> /\ history = <<>>

required_elements ==
    <<"<script src=\"mcp-client.js\"", "<link rel=\"stylesheet\" href=\"styles.css\"",
      "id=\"connect-btn\"", "id=\"server-url\"", "id=\"results\"",
      "onclick=\"getPatientInfo()\"", "onclick=\"searchNotes()\"",
      "onclick=\"listDiagnoses()\"", "onclick=\"naturalQuery()\"">>

tabs == <<"patient", "search-notes", "diagnoses", "medications",
          "procedures", "lab-events", "natural-query", "schema">>

\* f'id="{tab}-tab"'
tab_id(tab) == "id=\"" \o tab \o "-tab\""

\* index.html as the validator meets it: missing, not decodable as text, or
\* a text in which all the markers occur but a few.
HtmlAssets ==
    LET all == Range(required_elements) \cup {tab_id(tabs[k]) : k \in DOMAIN tabs}
        RECURSIVE Gaps(_)
        Gaps(n) == IF n = 0 THEN {{}}
                   ELSE Gaps(n - 1) \cup {g \cup {m} : g \in Gaps(n - 1), m \in all}
    IN  {[content |-> {}, state |-> st] : st \in {"missing", "undecodable"}}
        \cup {[content |-> all \ g, state |-> "text"] : g \in Gaps(MaxMissing)}

\* A mutation of validate_html: the loop over the tabs is left out.
validate_html_elements_only(asset) ==
    LET missing == SelectSeq(required_elements, LAMBDA e : e \notin asset.content)
    IN  IF asset.state = "missing"
        THEN [items |-> <<>>, passed |-> FALSE, raised |-> FALSE, text |-> "File not found"]
        ELSE IF asset.state = "undecodable"
        THEN [items |-> <<>>, passed |-> FALSE, raised |-> TRUE, text |-> "UnicodeDecodeError"]
        ELSE IF NonEmpty(missing)
        THEN [items |-> missing, passed |-> FALSE, raised |-> FALSE,
              text |-> "Missing HTML elements"]
        ELSE [items |-> <<>>, passed |-> TRUE, raised |-> FALSE,
              text |-> "HTML structure looks good"]

\* validate_html: (passed, message), or the exception of the read. The message
\* is its fixed text and the items it lists.
validate_html(asset) ==
    LET missing == SelectSeq(required_elements, LAMBDA e : e \notin asset.content)
        absent == SelectSeq(tabs, LAMBDA t : tab_id(t) \notin asset.content)
    IN  IF asset.state = "missing"
        THEN [items |-> <<>>, passed |-> FALSE, raised |-> FALSE, text |-> "File not found"]
        ELSE IF asset.state = "undecodable"
        THEN [items |-> <<>>, passed |-> FALSE, raised |-> TRUE, text |-> "UnicodeDecodeError"]
        ELSE IF NonEmpty(missing)
        THEN [items |-> missing, passed |-> FALSE, raised |-> FALSE,
              text |-> "Missing HTML elements"]
        ELSE IF NonEmpty(absent)
        THEN [items |-> <<Head(absent)>>, passed |-> FALSE, raised |-> FALSE,
              text |-> "Missing tab"]
        ELSE [items |-> <<>>, passed |-> TRUE, raised |-> FALSE,
              text |-> "HTML structure looks good"]

\* The checks of main, in the order it runs them.
checks == <<"HTML File", "JavaScript File", "CSS File", "Server Script", "README File",
            "JavaScript Syntax">>

\* What one of the other five checks may come to: it passes, it fails, it raises.
CheckOutcomes ==
    {[items |-> <<>>, passed |-> TRUE, raised |-> FALSE, text |-> "OK"],
     [items |-> <<>>, passed |-> FALSE, raised |-> FALSE, text |-> "failed"],
     [items |-> <<>>, passed |-> FALSE, raised |-> TRUE, text |-> "Error"]}

\* One turn of the loop of main: the next check runs; what it returns, or the
\* exception it raises, is appended to results, and a check that did not pass
\* clears all_passed.
run_check ==
    /\ validator # NoArgs
    /\ validator.exit = "running"
    /\ Len(validator.results) < Len(checks)
    /\ LET name == checks[Len(validator.results) + 1]
       IN  \E out \in (IF name = "HTML File" THEN {validate_html(validator.asset)}
                      ELSE CheckOutcomes) :
               validator' = [validator EXCEPT
                               !.results = Append(@, [message |-> [items |-> out.items,
                                                                   text |-> out.text],
                                                      name |-> name,
                                                      passed |-> out.passed,
                                                      raised |-> out.raised]),
                               !.all_passed = @ /\ out.passed]
    /\ UNCHANGED <<openai_api_key, tool, args, env, calls, result, serverVars, processVars,
                   client, loop>>

\* After the loop: the report, and sys.exit(1) unless all_passed.
report ==
    /\ validator # NoArgs
    /\ validator.exit = "running"
    /\ Len(validator.results) = Len(checks)
    /\ validator' = [validator EXCEPT
                       !.exit = IF validator.all_passed THEN "exit 0" ELSE "exit 1"]
    /\ UNCHANGED <<openai_api_key, tool, args, env, calls, result, serverVars, processVars,
                   client, loop>>

ValidateInit ==
    /\ ServerAtRest
    /\ validator \in {[all_passed |-> TRUE, asset |-> a, exit |-> "running", results |-> <<>>] :
                        a \in HtmlAssets}
    /\ client = NoArgs
    /\ loop = NoArgs

ValidateNext ==
    \/ run_check
    \/ report

ValidateSpec == ValidateInit /\ [][ValidateNext]_vars

----------------------------------------------------------------------------
(* demo/test_stdio_client.py *)

\* What comes back on the standard output of the server after a request: a
\* response with a result, a response with an error, a line that is not JSON,
\* or nothing (the pipe is at its end).
ClientResponses == {"result", "error", "not JSON", "nothing"}

\* MCPStdioClient.send_request: the id is incremented, the request is written,
\* one line is read. It returns the response (None for a line that is not
\* JSON) or raises RuntimeError.
send_request(c, method, name, response) ==
    IF ~c.process
    THEN [client |-> c, raised |-> TRUE, response |-> "nothing"]
    ELSE [client |-> [c EXCEPT !.request_id = @ + 1,
                               !.sent = Append(@, [id |-> c.request_id + 1, method |-> method,
                                                   name |-> name])],
          raised |-> response = "nothing",
          response |-> response]

\* The requests of test_all_tools, in the order it sends them.
test_all_tools ==
    <<[method |-> "initialize", name |-> "test-client"],
      [method |-> "tools/call", name |-> "ehr_get_schema"],
      [method |-> "tools/call", name |-> "ehr_patient"],
      [method |-> "tools/call", name |-> "ehr_search_notes"],
      [method |-> "tools/call", name |-> "ehr_list_diagnoses"],
      [method |-> "tools/call", name |-> "ehr_natural_query"]>>

\* client.start_server(): Popen starts the server, or raises and the run ends
\* in the except clause.
client_start_server ==
    /\ client # NoArgs
    /\ client.at = "created"
    /\ \E started \in BOOLEAN :
        client' = [client EXCEPT !.process = started,
                                 !.at = IF started THEN "testing" ELSE "failed"]
    /\ UNCHANGED <<openai_api_key, tool, args, env, calls, result, serverVars, processVars,
                   validator, loop>>

\* One test of test_all_tools: the request is sent and the response looked at.
\* A failed initialize returns; a response that is None makes the else branch
\* raise AttributeError, which ends the run like the RuntimeError of
\* send_request; the finally clause stops the server in every case.
client_test ==
    /\ client # NoArgs
    /\ client.at = "testing"
    /\ LET k == Len(client.sent) + 1
       IN  \E response \in ClientResponses :
             LET r == send_request(client, test_all_tools[k].method, test_all_tools[k].name,
                                   response)
                 next == IF r.raised \/ r.response = "not JSON" THEN "failed"
                         ELSE IF k = 1 /\ r.response = "error" THEN "returned"
                         ELSE IF k = Len(test_all_tools) THEN "completed"
                         ELSE "testing"
             IN  client' = [r.client EXCEPT !.at = next,
                                            !.process = next = "testing",
                                            !.received = Append(@, response)]
    /\ UNCHANGED <<openai_api_key, tool, args, env, calls, result, serverVars, processVars,
                   validator, loop>>

ClientInit ==
    /\ ServerAtRest
    /\ validator = NoArgs
    /\ client = [at |-> "created", process |-> FALSE, received |-> <<>>, request_id |-> 0,
                 sent |-> <<>>]
    /\ loop = NoArgs

ClientNext ==
    \/ client_start_server
    \/ client_test

ClientSpec == ClientInit /\ [][ClientNext]_vars

----------------------------------------------------------------------------
(* Concurrent invocations on the event loop of one server *)

Tasks == 1..MaxTasks

\* What a task runs: one of the two methods of the connection wrapper, as
\* the listing tools and the patient tool do with execute_read, or a
\* component that calls the LLM service before its read.
TaskKinds == {"execute_read", "execute_write", "natural_query", "semantic_search"}

\* A mutation of session_exit: the session is closed after the transaction
\* only, so a transaction that raises leaves it open.
session_exit_on_success_only(sessions, t, failed) ==
    IF failed THEN sessions ELSE sessions \ {t}

\* The end of `async with self.driver.session(...) as session`: the session
\* is closed, on return and on exception alike.
session_exit(sessions, t, failed) == sessions \ {t}

\* The loop picks a pending task and runs it to its first wait. A call of the
\* wrapper opens its session and awaits its transaction, which frees the
\* loop. natural_query and semantic_search first call the synchronous OpenAI
\* client (client.chat.completions.create, client.embeddings.create): the
\* call is not awaited, so the task keeps the loop until it returns.
task_start(t) ==
    /\ loop # NoArgs
    /\ loop.running = 0
    /\ loop.tasks[t].at = "pending"
    /\ loop' = IF loop.tasks[t].kind \in {"natural_query", "semantic_search"}
               THEN [loop EXCEPT !.tasks[t].at = "llm", !.running = t]
               ELSE [loop EXCEPT !.tasks[t].at = "tx", !.sessions = @ \cup {t}]
    /\ UNCHANGED <<openai_api_key, tool, args, env, calls, result, serverVars, processVars,
                   validator, client>>

\* The LLM call returns or raises. On a response the component goes on to
\* execute_read, which opens its session and awaits; on a failure it returns
\* (an error payload, or an empty list) without a read.
llm_returns(t) ==
    /\ loop # NoArgs
    /\ loop.tasks[t].at = "llm"
    /\ \E ok \in BOOLEAN :
        loop' = IF ok
                THEN [loop EXCEPT !.tasks[t].at = "tx", !.sessions = @ \cup {t}, !.running = 0]
                ELSE [loop EXCEPT !.tasks[t].at = "returned", !.running = 0]
    /\ UNCHANGED <<openai_api_key, tool, args, env, calls, result, serverVars, processVars,
                   validator, client>>

\* The awaited transaction is answered, with rows or with an error, and the
\* loop resumes the task, which leaves the async with block.
tx_answers(t) ==
    /\ loop # NoArgs
    /\ loop.running = 0
    /\ loop.tasks[t].at = "tx"
    /\ \E failed \in BOOLEAN :
        loop' = [loop EXCEPT !.tasks[t].at = "closing", !.tasks[t].failed = failed]
    /\ UNCHANGED <<openai_api_key, tool, args, env, calls, result, serverVars, processVars,
                   validator, client>>

\* The session is closed and the call of the wrapper returns the rows or
\* re-raises the error.
call_ends(t) ==
    /\ loop # NoArgs
    /\ loop.running = 0
    /\ loop.tasks[t].at = "closing"
    /\ loop' = [loop EXCEPT !.tasks[t].at = IF loop.tasks[t].failed THEN "raised" ELSE "returned",
                            !.sessions = session_exit(@, t, loop.tasks[t].failed)]
    /\ UNCHANGED <<openai_api_key, tool, args, env, calls, result, serverVars, processVars,
                   validator, client>>

LoopInit ==
    /\ ServerAtRest
    /\ validator = NoArgs
    /\ client = NoArgs
    /\ loop \in {[running |-> 0, sessions |-> {},
                  tasks |-> [t \in Tasks |-> [at |-> "pending", failed |-> FALSE,
                                              kind |-> kinds[t]]]] :
                    kinds \in [Tasks -> TaskKinds]}

LoopNext ==
    \E t \in Tasks :
        \/ task_start(t)
        \/ llm_returns(t)
        \/ tx_answers(t)
        \/ call_ends(t)

LoopSpec == LoopInit /\ [][LoopNext]_vars

----------------------------------------------------------------------------
(* What the claims speak about *)

Done == ~Idle

IsRead(call) == call.fn = "execute_read"
ReadsIssued == {i \in DOMAIN calls : IsRead(calls[i])}

\* The last call the invocation issued was a read, and the read raised.
ReadRaised == /\ Len(calls) > 0
              /\ IsRead(calls[Len(calls)])
              /\ env.db.raise

IsErrorPayload(res) == /\ res.type = "return"
                       /\ res.format = "json"
                       /\ "error" \in DOMAIN res.body

IdScopedTools == {"ehr_list_diagnoses", "ehr_list_procedures", "ehr_list_medications"}

----------------------------------------------------------------------------
(* C1: every tool invocation ends by returning a payload, and when the     *)
(* database read of the invocation raised, that payload is a JSON object   *)
(* with an error field: the error never reaches the runtime.               *)
C1_ErrorsBecomePayloads ==
    Done => /\ result.type = "return"
            /\ (ReadRaised => IsErrorPayload(result))

----------------------------------------------------------------------------
(* C2: listing diagnoses, procedures or medications with neither           *)
(* patient_id nor admission_id returns exactly the missing-identifier      *)
(* error and issues no call to the database, whatever the other arguments. *)
C2_MissingIdsRefused ==
    (tool \in IdScopedTools /\ args.patient_id = None /\ args.admission_id = None)
        => /\ result = Returned("json",
                           [error |-> "Either patient_id or admission_id must be provided"])
           /\ calls = <<>>

C2_Witness ==
    /\ tool = "ehr_list_diagnoses"
    /\ args.patient_id = None /\ args.admission_id = None
    /\ args.format = OUTPUT_FORMAT_TABLE /\ args.limit = 1
    /\ env.db.raise
    /\ result.type = "return"

----------------------------------------------------------------------------
(* C3: on a server created without an LLM key, ehr_natural_query returns   *)
(* a JSON error payload and calls neither the database (schema, query) nor *)
(* the LLM.                                                                *)
C3_NoKeyNoCalls ==
    (tool = "ehr_natural_query" /\ ~Truthy(openai_api_key))
        => /\ IsErrorPayload(result)
           /\ calls = <<>>

C3_Witness ==
    /\ tool = "ehr_natural_query"
    /\ openai_api_key = ""
    /\ ~env.schema.raise /\ ~env.llm.raise /\ ~env.db.raise
    /\ IsErrorPayload(result)

----------------------------------------------------------------------------
(* C4: a semantic note search without an LLM key returns exactly the       *)
(* key-required error and calls neither the embedding endpoint nor the     *)
(* database.                                                               *)
C4_SemanticNeedsKey ==
    (tool = "ehr_search_notes" /\ args.semantic /\ ~Truthy(openai_api_key))
        => /\ result = Returned("json",
                           [error |-> "OpenAI API key is required for semantic search"])
           /\ calls = <<>>

C4_Witness ==
    /\ tool = "ehr_search_notes"
    /\ args.semantic
    /\ openai_api_key = ""
    /\ ~env.embedding.raise /\ ~env.db.raise
    /\ result.body = [error |-> SEMANTIC_KEY_ERROR]

----------------------------------------------------------------------------
(* C5: when the execution of the generated query raises, natural_query     *)
(* returns the execution error with the query it executed and the message  *)
(* of the failure, and the invocation issued exactly one read.             *)
ExecutionReached ==
    /\ tool = "ehr_natural_query"
    /\ Truthy(openai_api_key)
    /\ ~env.schema.raise
    /\ ~env.llm.raise

C5_ExecutionFailureSurfaced ==
    (ExecutionReached /\ env.db.raise)
        => /\ Cardinality(ReadsIssued) = 1
           /\ IsRead(calls[Len(calls)])
           /\ result = Returned("json",
                           [details |-> env.db.message,
                            error |-> "Failed to execute generated query",
                            query |-> calls[Len(calls)].query])

C5_Witness ==
    /\ ExecutionReached /\ env.db.raise
    /\ env.llm.fenced
    /\ result.body.query = env.llm.body
    /\ result.body.query # env.llm.content

----------------------------------------------------------------------------
(* C6: when the schema retrieval or the chat completion fails,             *)
(* natural_query returns the processing error with the message of the      *)
(* failure, raises nothing, and issues no read.                            *)
C6_ProcessingFailureCaught ==
    (tool = "ehr_natural_query" /\ Truthy(openai_api_key)
     /\ (env.schema.raise \/ env.llm.raise))
        => /\ result = Returned("json",
                           [details |-> IF env.schema.raise THEN env.schema.message
                                        ELSE env.llm.message,
                            error |-> "Failed to process natural language query"])
           /\ ReadsIssued = {}

C6_Witness ==
    /\ tool = "ehr_natural_query" /\ Truthy(openai_api_key)
    /\ ~env.schema.raise /\ env.llm.raise
    /\ result.body.details = "API Error"
    /\ Len(calls) = 2

----------------------------------------------------------------------------
(* C7: for a response made of an opening fence, an optional language tag   *)
(* (any tag, or none), a body and a closing fence, the text natural_query  *)
(* executes is exactly the body; a response without a fence is executed    *)
(* after whitespace trimming only.                                         *)
C7_FenceAndTagStripped ==
    ExecutionReached
        => calls[Len(calls)].query = (IF env.llm.fenced THEN env.llm.body
                                      ELSE Strip(env.llm.content))

----------------------------------------------------------------------------
(* C8: when include_admissions is false and a clinical category is         *)
(* requested, the query still traverses HAS_ADMISSION from the patient, so *)
(* every returned item of the category hangs from an admission of that     *)
(* patient.                                                                *)
Requested(c) ==
    IF c = "admissions" THEN args.include_admissions
    ELSE IF c = "diagnoses" THEN args.include_diagnoses
    ELSE IF c = "procedures" THEN args.include_procedures
    ELSE IF c = "medications" THEN args.include_medications
    ELSE args.include_lab_events

PatientReturned ==
    /\ tool = "ehr_patient"
    /\ result.type = "return"
    /\ "patient" \in DOMAIN result.body

ItemsOfPatient(g, p) == UNION {ItemsOf(g, a) : a \in AdmissionsOf(g, p)}

C8_ClinicalThroughAdmissions ==
    (PatientReturned /\ ~args.include_admissions /\ (\E c \in Clinical : Requested(c)))
        => /\ MATCH_ADMISSIONS \in Range(calls[1].query.match)
           /\ \A c \in Clinical :
                result.body.items[c] \subseteq ItemsOfPatient(env.db.graph, args.subject_id)

----------------------------------------------------------------------------
(* C9: the response of get_patient carries a category only if the flag of  *)
(* the category was true; with the default flags it carries the patient    *)
(* asked for, the admissions of that patient, and no other category.       *)
DefaultFlags ==
    /\ args.include_admissions
    /\ ~args.include_diagnoses /\ ~args.include_procedures
    /\ ~args.include_medications /\ ~args.include_lab_events
    /\ args.format = OUTPUT_FORMAT_JSON

C9_OnlyRequestedCategories ==
    PatientReturned
        => /\ \A c \in result.body.categories : Requested(c)
           /\ DefaultFlags
                => /\ result.body.patient = args.subject_id
                   /\ result.body.categories = {"admissions"}
                   /\ result.body.items["admissions"]
                        = AdmissionsOf(env.db.graph, args.subject_id)

C9_Witness ==
    /\ PatientReturned /\ DefaultFlags
    /\ result.body.categories = {"admissions"}
    /\ result.body.items["admissions"] = {"a1"}
    /\ ItemsOfPatient(env.db.graph, "p2") # {}

----------------------------------------------------------------------------
(* C10: when the patient query returns no row, get_patient returns exactly *)
(* the not-found error for the subject id it was given, whatever the flags *)
(* and the format, after exactly one read.                                 *)
C10_PatientNotFound ==
    (tool = "ehr_patient" /\ ~env.db.raise /\ args.subject_id \notin Patients)
        => /\ result = Returned("json",
                           [error |-> "Patient " \o args.subject_id \o " not found"])
           /\ Len(calls) = 1
           /\ IsRead(calls[1])

C10_Witness ==
    /\ tool = "ehr_patient" /\ ~env.db.raise
    /\ args.subject_id = "p9"
    /\ args.format = OUTPUT_FORMAT_TABLE
    /\ args.include_diagnoses /\ ~args.include_admissions
    /\ result.body = [error |-> "Patient p9 not found"]

----------------------------------------------------------------------------
(* C11: when the read of a listing tool (diagnoses, procedures,            *)
(* medications, lab events) returns no row, the tool returns the JSON      *)
(* object with the empty list under its category key and the message       *)
(* "No <category> found", without an error field, whatever the format.     *)
ListingTools == {"ehr_list_diagnoses", "ehr_list_procedures",
                 "ehr_list_medications", "ehr_list_lab_events"}

NoRowReturned ==
    /\ tool \in ListingTools
    /\ Len(calls) = 1 /\ IsRead(calls[1])
    /\ ~env.db.raise
    /\ env.db.rows = <<>>

EmptyListing ==
    IF tool = "ehr_list_diagnoses"
    THEN [diagnoses |-> <<>>, message |-> "No diagnoses found"]
    ELSE IF tool = "ehr_list_procedures"
    THEN [message |-> "No procedures found", procedures |-> <<>>]
    ELSE IF tool = "ehr_list_medications"
    THEN [medications |-> <<>>, message |-> "No medications found"]
    ELSE [lab_events |-> <<>>, message |-> "No lab events found"]

C11_EmptyListingIsNotAnError ==
    NoRowReturned
        => /\ result = Returned("json", EmptyListing)
           /\ "error" \notin DOMAIN result.body

C11_Witness ==
    /\ NoRowReturned
    /\ tool = "ehr_list_medications"
    /\ args.format = OUTPUT_FORMAT_TABLE
    /\ result.format = "json"
    /\ result.body.medications = <<>>

----------------------------------------------------------------------------
(* C12: on a successful natural-language query with the JSON format, the   *)
(* envelope carries the question of the caller, the query text that was    *)
(* passed to execute_read, the row list the read returned and the number   *)
(* of its rows.                                                            *)
EnvelopeReturned ==
    /\ ExecutionReached
    /\ ~env.db.raise
    /\ args.format = OUTPUT_FORMAT_JSON
    /\ ~IsErrorPayload(result)

C12_EnvelopeEchoesRun ==
    EnvelopeReturned
        => /\ result.type = "return" /\ result.format = "json"
           /\ Cardinality(ReadsIssued) = 1
           /\ result.body.question = args.query
           /\ result.body.cypher_query = calls[Len(calls)].query
           /\ result.body.results = env.db.rows
           /\ result.body.count = Len(env.db.rows)

C12_Witness ==
    /\ EnvelopeReturned
    /\ env.llm.fenced /\ env.llm.tag = CYPHER
    /\ result.body.cypher_query = env.llm.body
    /\ result.body.results = <<1, 1>>
    /\ result.body.count = 2

----------------------------------------------------------------------------
(* C13: every server instance create_mcp_server returned, with or without  *)
(* an LLM key, has the eight tool names registered, and every registered   *)
(* tool is declared read-only, non-destructive and idempotent.             *)
C13_EightReadOnlyTools ==
    \A i \in DOMAIN servers :
        /\ DOMAIN servers[i].tools =
              {"ehr_patient", "ehr_search_notes", "ehr_list_diagnoses", "ehr_list_lab_events",
               "ehr_list_medications", "ehr_list_procedures", "ehr_natural_query",
               "ehr_get_schema"}
        /\ \A n \in DOMAIN servers[i].tools :
              /\ servers[i].tools[n].readOnlyHint
              /\ ~servers[i].tools[n].destructiveHint
              /\ servers[i].tools[n].idempotentHint

C13_Witness ==
    /\ Len(servers) = 2
    /\ created[1].openai_api_key = None
    /\ created[2].openai_api_key = "sk-1"
    /\ Cardinality(DOMAIN servers[1].tools) = 8
    /\ instance = 1 /\ tool = "ehr_natural_query"

----------------------------------------------------------------------------
(* C14: the outcome of a tool of a server instance is the outcome of the   *)
(* matching component, called with the connection wrapper and the LLM key  *)
(* that instance was created with and with the arguments of the call       *)
(* (ehr_natural_query on an instance without a key excepted); the          *)
(* connection and the key of another instance of the process are not used. *)
OwnConnection == [database |-> created[instance].database,
                  driver |-> created[instance].neo4j_driver]
OwnKey == created[instance].openai_api_key
OwnDb == env.dbs[OwnConnection]

MatchingComponent ==
    IF tool = "ehr_patient"
    THEN get_patient(OwnDb, args.subject_id, [c \in Categories |-> Requested(c)], args.format)
    ELSE IF tool = "ehr_search_notes"
    THEN search_notes(ServiceUnder(env.embedding, OwnKey), OwnDb, args.query, args.note_type,
                      args.limit, args.semantic, args.patient_id, args.admission_id,
                      args.format, OwnKey)
    ELSE IF tool = "ehr_list_diagnoses"
    THEN list_diagnoses(OwnDb, args.patient_id, args.admission_id, args.limit, args.format)
    ELSE IF tool = "ehr_list_procedures"
    THEN list_procedures(OwnDb, args.patient_id, args.admission_id, args.limit, args.format)
    ELSE IF tool = "ehr_list_medications"
    THEN list_medications(OwnDb, args.patient_id, args.admission_id, args.medication,
                          args.route, args.limit, args.format)
    ELSE IF tool = "ehr_list_lab_events"
    THEN list_lab_events(OwnDb, args.patient_id, args.admission_id, args.abnormal_only,
                         args.category, args.limit, args.format)
    ELSE IF tool = "ehr_natural_query"
    THEN natural_query(env.schema, ServiceUnder(env.llm, OwnKey), OwnDb, env.dumps,
                       args.query, args.limit, args.format, OwnKey)
    ELSE get_schema(env.schema, args.format)

C14_ToolIsItsComponent ==
    (instance > 0 /\ ~(tool = "ehr_natural_query" /\ ~Truthy(OwnKey)))
        => /\ result = MatchingComponent.result
           /\ calls = MatchingComponent.calls

C14_Witness ==
    /\ Len(servers) = 2 /\ instance = 1
    /\ servers[1].db_connection # servers[2].db_connection
    /\ created[1].openai_api_key = "sk-1" /\ created[2].openai_api_key = "sk-2"
    /\ tool = "ehr_natural_query"
    /\ ~env.dbs[servers[1].db_connection].raise /\ env.dbs[servers[2].db_connection].raise
    /\ ~env.llm["sk-1"].raise /\ env.llm["sk-2"].raise
    /\ result.type = "return" /\ result.format = "markdown"
    /\ result.body.count = 2

----------------------------------------------------------------------------
(* C15: in the server's main, once the driver has been created, its close  *)
(* has been called exactly once when main has ended, whether the transport *)
(* loop returned or raised.                                                *)
MainEnded == pc \in {"exited", "failed"}
DriverCreated == connection # NoArgs
DriverCloses == Cardinality({i \in DOMAIN driver_calls : driver_calls[i] = "close"})

C15_DriverClosedOnce ==
    (MainEnded /\ DriverCreated) => DriverCloses = 1

----------------------------------------------------------------------------
(* C16: when the password is given neither by the --neo4j-password flag    *)
(* nor by NEO4J_PASSWORD, the CLI ends with the usage error: the process   *)
(* never enters the server's main, creates no driver and starts no server. *)
C16_MissingPasswordIsUsageError ==
    (cli # NoArgs /\ cli.neo4j_password = None /\ cli.NEO4J_PASSWORD = None)
        => /\ pc \in {"start", "usage_error"}
           /\ ~DriverCreated

----------------------------------------------------------------------------
(* C17: over any sequence of close() calls on the connection wrapper the   *)
(* driver is released at most once: a close() after the first reaches the  *)
(* driver no more, and a close() of a wrapper without a driver never does. *)
C17_CloseReleasesOnce ==
    /\ DriverCloses <= 1
    /\ connection.driver = None => driver_calls = <<>>

----------------------------------------------------------------------------
(* C18: test_connection never raises and returns a boolean: true when the  *)
(* read succeeded, false when the read failed, whatever the failure.       *)
TestsRun == {i \in DOMAIN history : history[i].method = "test_connection"}

C18_TestConnectionIsBoolean ==
    \A i \in TestsRun :
        /\ history[i].returned.type = "return"
        /\ history[i].returned.body.value \in BOOLEAN
        /\ history[i].returned.body.value
             = (connection.driver # None /\ ~history[i].read.raise)

C18_Witness ==
    /\ connection.driver # None
    /\ Len(history) = 3
    /\ history[1].method = "test_connection" /\ history[1].returned.body.value = TRUE
    /\ history[2].method = "test_connection" /\ history[2].read.message = "ServiceUnavailable"
    /\ history[2].returned.body.value = FALSE
    /\ history[3].method = "test_connection" /\ history[3].read.message = "Neo4jError"
    /\ history[3].returned.body.value = FALSE

----------------------------------------------------------------------------
(* C19: a listing tool called twice with the same arguments against an     *)
(* unchanged database sends the same query text and the same parameters    *)
(* both times, and returns the same payload both times whenever the ORDER  *)
(* BY clause of the query determines the order of the selected rows (no    *)
(* two of them have equal sort keys) or the database answers alike: the    *)
(* tool adds no ordering of its own to the one ORDER BY leaves open.       *)
CalledTwice == tool \in ListingTools /\ Len(history) = 1

OrderDetermined ==
    \A i, j \in Items : (i # j /\ env.data[i] > 0 /\ env.data[j] > 0)
                            => env.data[i] # env.data[j]

----------------------------------------------------------------------------
(* C20: a semantic note search with limit L that obtained its embedding    *)
(* sends one vector-index query asking the note_embeddings index for 2 x L *)
(* candidates, with the note-type filter and the patient and admission     *)
(* filters that were supplied in the WHERE clause that follows the YIELD   *)
(* of the candidates; when the query succeeds, the results it formats are  *)
(* at most L, they are the first L rows the query returned, in order, and  *)
(* each carries the score of its row.                                      *)
SemanticSearchRan ==
    /\ tool = "ehr_search_notes"
    /\ args.semantic
    /\ Truthy(openai_api_key)
    /\ ~env.embedding.raise

InQuery(cond, q) == \E k \in 4..Len(q) : q[k] = cond

TypeFilter ==
    IF args.note_type = NOTE_TYPE_DISCHARGE THEN "node:DischargeNote"
    ELSE IF args.note_type = NOTE_TYPE_RADIOLOGY THEN "node:RadiologyReport"
    ELSE "(node:DischargeNote OR node:RadiologyReport)"

NotesFormatted ==
    IF "list" \in DOMAIN result.body THEN result.body.list
    ELSE IF "table" \in DOMAIN result.body THEN result.body.table
    ELSE IF "notes" \in DOMAIN result.body THEN result.body.notes
    ELSE <<>>

C20_SemanticSearchKeepsFirstL ==
    SemanticSearchRan
        => /\ Len(calls) = 2
           /\ calls[2].fn = "execute_read"
           /\ calls[2].query[1]
                  = "CALL db.index.vector.queryNodes($index_name, $limit, $query_embedding)"
           /\ calls[2].query[2] = "YIELD node, score"
           /\ calls[2].query[3] = "WHERE"
           /\ calls[2].params.index_name = "note_embeddings"
           /\ calls[2].params.limit = 2 * args.limit
           /\ InQuery(TypeFilter, calls[2].query)
           /\ InQuery("node.subject_id = $patient_id", calls[2].query)
                  <=> Truthy(args.patient_id)
           /\ InQuery("node.hadm_id = $admission_id", calls[2].query)
                  <=> Truthy(args.admission_id)
           /\ calls[2].params.patient_id = args.patient_id
           /\ calls[2].params.admission_id = args.admission_id
           /\ ~env.db.raise
                  => /\ result.type = "return"
                     /\ Len(NotesFormatted) <= args.limit
                     /\ Len(NotesFormatted) = Min(args.limit, Len(env.db.rows))
                     /\ \A k \in 1..Len(NotesFormatted) :
                            /\ NotesFormatted[k].note_id = env.db.rows[k]
                            /\ NotesFormatted[k].score
                                   = note_row(env.db.rows[k], TRUE).score

C20_Witness ==
    /\ SemanticSearchRan
    /\ args.limit = 1
    /\ args.patient_id = "p1"
    /\ args.note_type = NOTE_TYPE_DISCHARGE
    /\ env.db.rows = <<2, 1>>
    /\ calls[2].params.limit = 2
    /\ result.format = "json"
    /\ result.body.list = <<[note_id |-> 2, score |-> "0.98"]>>

----------------------------------------------------------------------------
(* C21: a note search with semantic false issues exactly one call, a       *)
(* database read: it calls neither the embedding endpoint nor the chat     *)
(* completion endpoint, whatever the query text, the filters, the output   *)
(* format and the configured key.                                          *)
TextSearchRan == tool = "ehr_search_notes" /\ ~args.semantic

C21_TextSearchCallsNoLLM ==
    TextSearchRan
        => /\ Len(calls) = 1
           /\ calls[1].fn = "execute_read"
           /\ \A k \in 1..Len(calls) :
                  calls[k].fn \notin {"embeddings.create", "chat.completions.create"}

C21_Witness ==
    /\ TextSearchRan
    /\ args.query = "heart failure"
    /\ openai_api_key = "sk-test"
    /\ args.patient_id = "p1"
    /\ Len(calls) = 1
    /\ calls[1].fn = "execute_read"
    /\ result.type = "return"
    /\ NonEmpty(env.db.rows)

----------------------------------------------------------------------------
(* C26: no tool invocation calls execute_write: every call a tool makes is *)
(* a read through execute_read, the schema lookup of the wrapper, or a     *)
(* call to the LLM service, and the query the LLM generated is run through *)
(* execute_read.                                                           *)
GeneratedQueryRan ==
    /\ tool = "ehr_natural_query"
    /\ Truthy(openai_api_key)
    /\ ~env.schema.raise
    /\ ~env.llm.raise

C26_NoToolWrites ==
    /\ \A k \in 1..Len(calls) :
          calls[k].fn \in {"execute_read", "get_schema", "embeddings.create",
                           "chat.completions.create"}
    /\ GeneratedQueryRan
          => /\ Len(calls) = 3
             /\ calls[3].fn = "execute_read"
             /\ calls[3].query = clean_cypher_query(env.llm.content)

C26_Witness ==
    /\ GeneratedQueryRan
    /\ Len(calls) = 3
    /\ calls[3].fn = "execute_read"
    /\ calls[3].query = <<"M", " ", "p">>
    /\ ~env.db.raise
    /\ result.type = "return"

----------------------------------------------------------------------------
(* C30: when the embedding call of a semantic note search fails, the only  *)
(* call issued is the embedding call (no database query), and the search   *)
(* returns the empty note list in the requested format: the empty list for *)
(* JSON, the text "No notes found." for table and text; it returns no      *)
(* error payload and raises nothing.                                       *)
EmbeddingFailed ==
    /\ tool = "ehr_search_notes"
    /\ args.semantic
    /\ Truthy(openai_api_key)
    /\ env.embedding.raise

C30_EmbeddingFailureIsEmptyList ==
    EmbeddingFailed
        => /\ Len(calls) = 1
           /\ calls[1].fn = "embeddings.create"
           /\ result.type = "return"
           /\ "error" \notin DOMAIN result.body
           /\ args.format \in {OUTPUT_FORMAT_TABLE, OUTPUT_FORMAT_TEXT}
                  => result.body = [text |-> "No notes found."]
           /\ args.format = OUTPUT_FORMAT_JSON
                  => result = Returned("json", [list |-> <<>>])

C30_Witness ==
    /\ EmbeddingFailed
    /\ args.format = OUTPUT_FORMAT_TABLE
    /\ NonEmpty(env.db.rows)
    /\ calls = <<EmbeddingCall(args.query)>>
    /\ result = Returned("table", [text |-> "No notes found."])

----------------------------------------------------------------------------
(* C28: when the row of the patient query carries an empty list or None    *)
(* for a requested category, get_patient does not raise, and the patient   *)
(* it returns has that category empty or left out; this for each of the    *)
(* five categories.                                                        *)
PatientRowAnswered == tool = "ehr_patient" /\ "graph" \notin DOMAIN env.db

RequestedOf(c) ==
    IF c = "admissions" THEN args.include_admissions
    ELSE IF c = "diagnoses" THEN args.include_diagnoses
    ELSE IF c = "procedures" THEN args.include_procedures
    ELSE IF c = "medications" THEN args.include_medications
    ELSE args.include_lab_events

EmptyOrNone(c) ==
    /\ c \in env.db.rows[1].keys
    /\ c \in env.db.rows[1].nulls \/ env.db.rows[1].values[c] = {}

C28_EmptyOrNoneNeverRaises ==
    PatientRowAnswered
        => \A c \in Categories :
              (RequestedOf(c) /\ EmptyOrNone(c))
                  => /\ result.type = "return"
                     /\ result.body.patient = args.subject_id
                     /\ c \notin result.body.categories \/ result.body.items[c] = {}

----------------------------------------------------------------------------
(* C29: when list_diagnoses, list_procedures or list_medications is given  *)
(* both a patient id and an admission id, the query it sends is the        *)
(* admission-scoped one, no clause of it refers to $patient_id, and its    *)
(* call and its result are those of the same call made with the admission  *)
(* id alone, but for the unused patient_id entry list_medications keeps in *)
(* its parameters.                                                         *)
BothIdsGiven ==
    /\ tool \in {"ehr_list_diagnoses", "ehr_list_procedures", "ehr_list_medications"}
    /\ Truthy(args.patient_id)
    /\ Truthy(args.admission_id)

AdmissionAlone ==
    IF tool = "ehr_list_diagnoses"
    THEN list_diagnoses(env.db, None, args.admission_id, args.limit, args.format)
    ELSE IF tool = "ehr_list_procedures"
    THEN list_procedures(env.db, None, args.admission_id, args.limit, args.format)
    ELSE list_medications(env.db, None, args.admission_id, args.medication, args.route,
                          args.limit, args.format)

PatientClauses ==
    {"m.subject_id = $patient_id",
     "MATCH (p:Patient {subject_id: $patient_id})-[:HAS_ADMISSION]->(a:Admission)-[:HAS_DIAGNOSIS]->(d:Diagnosis)",
     "MATCH (pat:Patient {subject_id: $patient_id})-[:HAS_ADMISSION]->(a:Admission)-[:HAS_PROCEDURE]->(p:Procedure)"}

C29_AdmissionScopeWins ==
    BothIdsGiven
        => /\ Len(calls) = 1
           /\ calls[1].query = AdmissionAlone.calls[1].query
           /\ \A k \in 1..Len(calls[1].query) : calls[1].query[k] \notin PatientClauses
           /\ calls[1].params.admission_id = args.admission_id
           /\ calls[1].params.limit = args.limit
           /\ tool # "ehr_list_medications" => calls = AdmissionAlone.calls
           /\ result = AdmissionAlone.result

C29_Witness ==
    /\ BothIdsGiven
    /\ tool = "ehr_list_medications"
    /\ args.patient_id = "p1"
    /\ args.admission_id = "a1"
    /\ calls[1].query[3] = "m.hadm_id = $admission_id"
    /\ NonEmpty(env.db.rows)
    /\ result.type = "return"
    /\ result = AdmissionAlone.result

----------------------------------------------------------------------------
(* C27: for the patient, note-search, diagnoses, procedures, medications   *)
(* and lab-events tools, the query text sent depends only on which of the  *)
(* value inputs are given and on the flags and the note type: an           *)
(* invocation sends the query texts of the invocation that has a fixed     *)
(* value in the place of every value input that is given and the same      *)
(* limit for all, and every value input that is a parameter of the query   *)
(* travels there unchanged. As stated, "given" means supplied, whatever    *)
(* the value (C27_QueryTextIgnoresValues); amended, it means non-empty: an *)
(* empty string counts as not given (C27_QueryTextIgnoresNonEmptyValues).  *)
QueryTools == {"ehr_patient", "ehr_search_notes", "ehr_list_diagnoses", "ehr_list_procedures",
               "ehr_list_medications", "ehr_list_lab_events"}

ValueInputs == {"subject_id", "patient_id", "admission_id", "query", "medication", "route",
                "category"}

SuppliedOnly(v) == IF v = None THEN None ELSE "x"
NonEmptyOnly(v) == IF Truthy(v) THEN "x" ELSE None

ValuesFixed(fixed(_)) ==
    [k \in DOMAIN args |-> IF k \in ValueInputs THEN fixed(args[k])
                           ELSE IF k = "limit" THEN 1
                           ELSE args[k]]

SameRunWith(a) ==
    LET conn == Neo4jConnection("d1", "neo4j")
    IN  tool_fn(conn, openai_api_key, tool, a,
                [dbs |-> [c \in {conn} |-> env.db],
                 embedding |-> [k \in {openai_api_key} |->
                                  IF tool = "ehr_search_notes" THEN env.embedding
                                  ELSE [message |-> "", raise |-> FALSE]]])

QueryTexts(cs) ==
    [k \in 1..Len(cs) |-> IF cs[k].fn = "execute_read" THEN cs[k].query ELSE <<"no query">>]

ValuesAreParameters ==
    \A k \in 1..Len(calls) :
        calls[k].fn = "execute_read"
            => /\ \A name \in (DOMAIN calls[k].params) \cap ValueInputs :
                      calls[k].params[name] = args[name]
               /\ "limit" \in DOMAIN calls[k].params
                      => calls[k].params.limit \in {args.limit, 2 * args.limit}

C27_QueryTextIgnoresValues ==
    tool \in QueryTools
        => /\ QueryTexts(calls) = QueryTexts(SameRunWith(ValuesFixed(SuppliedOnly)).calls)
           /\ ValuesAreParameters

C27_QueryTextIgnoresNonEmptyValues ==
    tool \in QueryTools
        => /\ QueryTexts(calls) = QueryTexts(SameRunWith(ValuesFixed(NonEmptyOnly)).calls)
           /\ ValuesAreParameters

C27_Witness ==
    /\ tool = "ehr_search_notes"
    /\ ~args.semantic
    /\ args.query = "heart failure"
    /\ args.patient_id = "p1"
    /\ args.admission_id = None
    /\ args.limit = DEFAULT_NOTE_SEARCH_LIMIT
    /\ calls[1].params.query = "heart failure"
    /\ calls[1].params.patient_id = "p1"
    /\ QueryTexts(calls) = QueryTexts(SameRunWith(ValuesFixed(NonEmptyOnly)).calls)
    /\ ValuesFixed(NonEmptyOnly) # args

----------------------------------------------------------------------------
(* C22: the HTML check of the demo validator fails when a tab identifier   *)
(* is absent from the HTML text, with a message that names something that  *)
(* is missing (the first absent tab, when every required element is        *)
(* there); it passes when the eight tab identifiers and all the required   *)
(* elements are there; and when a check of the run failed or raised, the   *)
(* run exits with status 1.                                                *)
HtmlChecked == validator # NoArgs /\ Len(validator.results) >= 1

TabsAbsent == {tabs[k] : k \in {n \in DOMAIN tabs : tab_id(tabs[n]) \notin validator.asset.content}}
ElementsAbsent == Range(required_elements) \ validator.asset.content

HtmlResult == validator.results[1]

C22_HtmlCheckNamesMissingTab ==
    /\ (HtmlChecked /\ validator.asset.state = "text")
          => /\ TabsAbsent # {}
                => /\ ~HtmlResult.passed
                   /\ HtmlResult.message.items # <<>>
                   /\ Range(HtmlResult.message.items) \subseteq (TabsAbsent \cup ElementsAbsent)
                   /\ ElementsAbsent = {}
                         => /\ HtmlResult.message.text = "Missing tab"
                            /\ HtmlResult.message.items[1] \in TabsAbsent
             /\ (TabsAbsent = {} /\ ElementsAbsent = {}) => HtmlResult.passed
    /\ (validator # NoArgs /\ validator.exit # "running")
          => ((\E k \in DOMAIN validator.results :
                  ~validator.results[k].passed \/ validator.results[k].raised)
                 => validator.exit = "exit 1")

C22_Witness ==
    /\ validator # NoArgs
    /\ validator.exit = "exit 1"
    /\ validator.asset.state = "text"
    /\ TabsAbsent = {"lab-events"}
    /\ ElementsAbsent = {}
    /\ HtmlResult.message = [items |-> <<"lab-events">>, text |-> "Missing tab"]
    /\ \A k \in 2..Len(validator.results) : validator.results[k].passed

----------------------------------------------------------------------------
(* C23: the automated sequence of the standard input/output client sends   *)
(* initialize first and then one tools/call for each of the eight tools,   *)
(* and the id of each request is one more than the id of the request       *)
(* before it, starting at 1.                                               *)
SequenceCompleted == client # NoArgs /\ client.at = "completed"

ToolsCalled == {client.sent[k].name : k \in {n \in DOMAIN client.sent :
                                                client.sent[n].method = "tools/call"}}

C23_InitializeThenEightTools ==
    /\ client # NoArgs
          => \A k \in DOMAIN client.sent : client.sent[k].id = k
    /\ SequenceCompleted
          => /\ client.sent[1].method = "initialize"
             /\ \A k \in 2..Len(client.sent) : client.sent[k].method = "tools/call"
             /\ ToolsCalled = ToolNames
             /\ Len(client.sent) = 1 + Cardinality(ToolNames)

----------------------------------------------------------------------------
(* C24: every call of execute_read or execute_write has a session of its   *)
(* own while its transaction runs, and that session is closed by the time  *)
(* the call returns or raises: under every interleaving of the calls on    *)
(* one wrapper, each open session belongs to a call in progress, so the    *)
(* open sessions are never more than the calls in progress and there is    *)
(* none when no call is in progress.                                       *)
CallsInProgress == {t \in Tasks : loop.tasks[t].at \in {"tx", "closing"}}

C24_SessionsWithinCalls ==
    loop # NoArgs
        => /\ \A t \in Tasks : loop.tasks[t].at = "tx" => t \in loop.sessions
           /\ \A t \in Tasks : loop.tasks[t].at \in {"returned", "raised"} => t \notin loop.sessions
           /\ loop.sessions \subseteq CallsInProgress
           /\ Cardinality(loop.sessions) <= Cardinality(CallsInProgress)
           /\ CallsInProgress = {} => loop.sessions = {}

C24_Witness ==
    /\ loop # NoArgs
    /\ loop.tasks[1].kind = "execute_read"
    /\ loop.tasks[2].kind = "execute_write"
    /\ loop.tasks[1].at = "raised"
    /\ loop.tasks[2].at = "tx"
    /\ loop.sessions = {2}

----------------------------------------------------------------------------
(* C25: while one invocation waits for the response of the LLM service     *)
(* (the chat completion of natural_query, the embedding of                 *)
(* semantic_search), another invocation pending on the same server can     *)
(* start.                                                                  *)
C25_LLMWaitFreesTheLoop ==
    loop # NoArgs
        => \A i, j \in Tasks :
              (loop.tasks[i].at = "llm" /\ loop.tasks[j].at = "pending")
                  => ENABLED task_start(j)

====
